---- MODULE Spec2Model ----
(***************************************************************************)
(* Keyword matching and notification pipeline of the Telegram keyword      *)
(* search bot: the user directory (UserModel), the match ledger            *)
(* (KeywordMatchModel), the userbot's event handlers                       *)
(* (TelegramUserbotService) and KeywordSearchService.                      *)
(*                                                                         *)
(* Strings are sequences of one-character strings.  Every await of the     *)
(* handlers that performs I/O is one step, so handlers of different events *)
(* interleave exactly where the code can suspend.                          *)
(***************************************************************************)
EXTENDS Integers, Sequences, FiniteSets, TLC

\* ------------------------------------------------------------------ bounds
\* Number of units of work (platform events, search calls) in one run.
MaxEvents == 2
\* Number of injected storage / transport failures in one run.
MaxFailures == 2
\* Days the clock advances in one run.
MaxNow == 2
\* Entries the ledger holds in the runs of the ledger methods.
MaxEntries == 3

\* --------------------------------------------------------- program constants
DefaultCharacterLimit == 100
MinCharacterLimit == 1
MaxCharacterLimit == 1000

\* ------------------------------------------------------------------ strings
Upper == <<"A", "B">>
Lower == <<"a", "b">>

\* String.prototype.toLowerCase on one character.
LowerChar(c) ==
  IF \E i \in 1..Len(Upper) : Upper[i] = c
    THEN Lower[CHOOSE i \in 1..Len(Upper) : Upper[i] = c]
    ELSE c

\* String.prototype.toLowerCase.
ToLowerCase(s) == [i \in 1..Len(s) |-> LowerChar(s[i])]

IsSpace(c) == c = " "

\* The decimal digits.
Digits == <<"0", "1", "2", "3", "4", "5", "6", "7", "8", "9">>

IsDigit(c) == \E i \in 1..Len(Digits) : Digits[i] = c

\* \w of the regular expressions: letters and digits (the alphabet has no "_").
IsWordChar(c) == c \in {"a", "b", "A", "B"} \/ IsDigit(c)

\* String.prototype.includes: needle occurs in hay at some offset.
Includes(hay, needle) ==
  \E i \in 0..(Len(hay) - Len(needle)) :
    \A j \in 1..Len(needle) : hay[i + j] = needle[j]

\* String.prototype.trim.
RECURSIVE TrimStart(_)
TrimStart(s) ==
  IF s # <<>> /\ IsSpace(Head(s)) THEN TrimStart(Tail(s)) ELSE s

RECURSIVE TrimEnd(_)
TrimEnd(s) ==
  IF s # <<>> /\ IsSpace(s[Len(s)]) THEN TrimEnd(SubSeq(s, 1, Len(s) - 1)) ELSE s

Trim(s) == TrimEnd(TrimStart(s))

\* String.prototype.split(/\s+/): the maximal runs of non-space characters; a
\* leading or trailing run of spaces yields an empty first or last piece.
RECURSIVE SplitAcc(_, _, _)
SplitAcc(s, cur, inSpace) ==
  IF s = <<>> THEN <<cur>>
  ELSE IF IsSpace(Head(s))
    THEN IF inSpace THEN SplitAcc(Tail(s), cur, TRUE)
         ELSE <<cur>> \o SplitAcc(Tail(s), <<>>, TRUE)
    ELSE SplitAcc(Tail(s), Append(cur, Head(s)), FALSE)

SplitWhitespace(s) == SplitAcc(s, <<>>, FALSE)

\* Characters escapeRegex prefixes with a backslash.
RegexSpecial == {".", "*", "+", "?", "^", "$", "{", "}", "(", ")", "|", "[", "]", "\\"}

\* escapeRegex: every special character is preceded by a backslash.
RECURSIVE escapeRegex(_)
escapeRegex(s) ==
  IF s = <<>> THEN <<>>
  ELSE IF Head(s) \in RegexSpecial
    THEN <<"\\", Head(s)>> \o escapeRegex(Tail(s))
    ELSE <<Head(s)>> \o escapeRegex(Tail(s))

\* The literal a pattern built by escapeRegex stands for: a backslash makes the
\* next character literal.
RECURSIVE PatternLiteral(_)
PatternLiteral(p) ==
  IF p = <<>> THEN <<>>
  ELSE IF Head(p) = "\\" /\ Len(p) >= 2
    THEN <<p[2]>> \o PatternLiteral(SubSeq(p, 3, Len(p)))
    ELSE <<Head(p)>> \o PatternLiteral(Tail(p))

\* \b at offset i of s (between s[i] and s[i+1]).
WordBoundaryAt(s, i) ==
  LET before == i >= 1 /\ IsWordChar(s[i])
      after  == i + 1 <= Len(s) /\ IsWordChar(s[i + 1])
  IN  before # after

\* new RegExp(`\\b${pattern}\\b`, 'i').test(text)
WordBoundaryTest(pattern, text) ==
  LET lit == ToLowerCase(PatternLiteral(pattern))
      t   == ToLowerCase(text)
  IN  \E i \in 0..(Len(t) - Len(lit)) :
        /\ \A j \in 1..Len(lit) : t[i + j] = lit[j]
        /\ WordBoundaryAt(t, i)
        /\ WordBoundaryAt(t, i + Len(lit))

\* KeywordSearchService.isKeywordMatch (messageText is already lowercased).
isKeywordMatch(messageText, keyword) ==
  LET normalizedKeyword == Trim(ToLowerCase(keyword))
      keywordWords      == SplitWhitespace(normalizedKeyword)
  IN  \/ Includes(messageText, normalizedKeyword)
      \/ WordBoundaryTest(escapeRegex(normalizedKeyword), messageText)
      \/ /\ Len(keywordWords) > 1
         /\ \A w \in 1..Len(keywordWords) :
              \/ Includes(messageText, keywordWords[w])
              \/ WordBoundaryTest(escapeRegex(keywordWords[w]), messageText)

\* Variant for comparison: the keyword is not lowercased before the comparison.
SubstringMatchRawKeyword(text, keyword) == Includes(ToLowerCase(text), keyword)

\* The filter predicate of checkKeywordMatches.
SubstringMatch(text, keyword) == Includes(ToLowerCase(text), ToLowerCase(keyword))

\* ------------------------------------------------------------- input domains
Users == {1, 2}

\* The phone number of the record of a user the directory starts with, and the
\* session credential stored with it.
PhoneOf(id) == <<"+", "1", Digits[id + 1]>>
Session == <<"s">>

\* The verification code Telegram sends to a user who logs in.
VerificationCode == <<"4", "2">>

K1 == <<"a">>
K2 == <<"B">>
K3 == <<"a", " ", "b">>

K4 == <<"1">>

T1 == <<"A">>
T2 == <<"b", " ", "a">>
T3 == <<"1", "b">>

Texts == {T1, T2}
Chats == {7}

\* Keyword lists, limits and destination lists the directory starts with; each is
\* one that /addkeyword, /setlimit and /setgroups can store.
KeywordLists == {<<K1, K2>>, <<K3>>}
LimitChoices == {MinCharacterLimit, DefaultCharacterLimit}
GroupLists == {<<>>, <<101, 102>>}

NoUser == [telegramId |-> 0]
NoDirectory == <<>>
Undefined == "undefined"

\* The update classes the two registered handlers act on.
UpdateNewMessage == "UpdateNewMessage"
UpdateEditMessage == "UpdateEditMessage"

\* Ways an update falls short of a text message: a field that is absent, or a
\* body that is not a string.
Defects == {"chatId", "id", "senderId", "message", "notString"}

\* The sender of the modelled messages.
SenderId == 9

\* No ledger call has returned yet.
NoReply == [op |-> "none"]

VARIABLES
  users,    \* the users collection: telegramId -> record, or NoUser
  ledger,   \* the keyword_matches collection: a set of entries
  sends,    \* every bot.telegram.sendMessage attempted, with its outcome
  events,   \* the units of work: event index -> handler state
  raised,   \* an exception left an event handler
  now,      \* the wall clock (new Date()), in days
  reply,    \* the last call of a ledger method and what it returned
  sessions,     \* the auth_sessions collection: a set of records
  pendingAuth,  \* TelegramAuthService.pendingAuth of the bot: user -> entry
  dialog,       \* what each user has sent of the login script so far
  answer,       \* the last update the bot handled and what it replied
  clients,      \* TelegramUserbotService.activeUsers: users with a client
  userbot,      \* TelegramUserbotService: isRunning, the clients it connected
  proc          \* the process: environment, startup and shutdown position

vars == <<users, ledger, sends, events, raised, now, reply,
          sessions, pendingAuth, dialog, answer, clients, userbot, proc>>

\* The state of the command surface and of the process, which the matching
\* pipeline and the ledger methods leave alone.
surface == <<sessions, pendingAuth, dialog, answer, clients, userbot, proc>>

\* No entry in the pendingAuth map.
NoPending == [step |-> "none"]

\* The bot has handled no update yet.
NoAnswer == [cmd |-> "none"]

\* ------------------------------------------------------------ user directory
\* UserSchema with the defaults of UserModel.createUser, for a document that was
\* last written before the run starts.
UserRecord(id, auth, kws, limit, groups) ==
  [telegramId |-> id, phoneNumber |-> PhoneOf(id), sessionString |-> Session,
   isAuthenticated |-> auth, isActive |-> TRUE,
   keywords |-> kws, characterLimit |-> limit, notificationGroups |-> groups,
   updatedAt |-> 0 - 1]

\* The object the bot's text handler passes to createUser; text is the message
\* the handler is processing.
NewUserData(id, text) ==
  [telegramId |-> id, phoneNumber |-> text, isAuthenticated |-> TRUE,
   keywords |-> <<>>, characterLimit |-> DefaultCharacterLimit,
   notificationGroups |-> <<>>, isActive |-> TRUE]

\* UserModel.createUser: the document saved for userData.  characterLimit is
\* userData.characterLimit || 100 and sessionString takes the schema default ''.
createUser(userData) ==
  [telegramId |-> userData.telegramId, phoneNumber |-> userData.phoneNumber,
   sessionString |-> <<>>, isAuthenticated |-> userData.isAuthenticated,
   isActive |-> TRUE, keywords |-> userData.keywords,
   characterLimit |-> IF userData.characterLimit = 0
                        THEN DefaultCharacterLimit
                        ELSE userData.characterLimit,
   notificationGroups |-> userData.notificationGroups,
   updatedAt |-> now]

RECURSIVE SeqOfSet(_)
\* The documents of a set of telegramIds in insertion (= id) order.
SeqOfSet(S) ==
  IF S = {} THEN <<>>
  ELSE LET m == CHOOSE x \in S : \A y \in S : x <= y
       IN  <<m>> \o SeqOfSet(S \ {m})

\* Variant for comparison: the query filters on isActive only.
getAllActiveUsersIgnoringAuth(dir) ==
  LET ids == {u \in Users : dir[u] # NoUser /\ dir[u].isActive}
      order == SeqOfSet(ids)
  IN  [i \in 1..Len(order) |-> dir[order[i]]]

\* UserModel.getAllActiveUsers: find({isAuthenticated: true, isActive: true}).
getAllActiveUsers(dir) ==
  LET ids == {u \in Users : /\ dir[u] # NoUser
                            /\ dir[u].isAuthenticated
                            /\ dir[u].isActive}
      order == SeqOfSet(ids)
  IN  [i \in 1..Len(order) |-> dir[order[i]]]

\* ------------------------------------------------------------------- ledger
\* The paths KeywordMatchSchema marks required.
RequiredPaths == {"userId", "keyword", "message", "chatId", "messageId", "messageLength"}

\* Mongoose validation of a new KeywordMatch document.
ValidMatch(matchData) == RequiredPaths \subseteq DOMAIN matchData

\* Variant for comparison: a failed save is logged and the call returns.
createMatchSwallowingErrors(coll, matchData, id, storageOk) ==
  LET stamped == [_id |-> id, timestamp |-> now] @@ matchData
  IN  IF ValidMatch(matchData) /\ storageOk
        THEN [ledger |-> coll \cup {stamped}, ok |-> TRUE, doc |-> stamped]
        ELSE [ledger |-> coll, ok |-> TRUE, doc |-> stamped]

\* KeywordMatchModel.createMatch: the collection after the call, whether the call
\* returned (TRUE) or threw (FALSE), and the document.  The document is matchData
\* with the timestamp set to new Date(), the _id the constructor assigns and the
\* keyword trimmed by the schema; storageOk is the outcome of save().
createMatch(coll, matchData, id, storageOk) ==
  LET stamped == [_id |-> id, timestamp |-> now] @@ matchData
      match   == IF "keyword" \in DOMAIN stamped
                   THEN [stamped EXCEPT !.keyword = Trim(@)]
                   ELSE stamped
  IN  IF ValidMatch(matchData) /\ storageOk
        THEN [ledger |-> coll \cup {match}, ok |-> TRUE, doc |-> match]
        ELSE [ledger |-> coll, ok |-> FALSE, doc |-> match]

\* new Date() moved back by days (setDate(getDate() - days)).
CutoffDate(days) == now - days

\* Variant for comparison: entries at the cutoff are deleted too.
deleteOldMatchesThroughCutoff(coll, olderThanDays, storageOk) ==
  LET old == {m \in coll : m.timestamp <= CutoffDate(olderThanDays)}
  IN  IF storageOk
        THEN [ledger |-> coll \ old, ok |-> TRUE, value |-> Cardinality(old)]
        ELSE [ledger |-> coll, ok |-> FALSE, value |-> 0]

\* KeywordMatchModel.deleteOldMatches: deleteMany({timestamp: {$lt: cutoffDate}})
\* and its deletedCount; the call throws when the store fails.
deleteOldMatches(coll, olderThanDays, storageOk) ==
  LET old == {m \in coll : m.timestamp < CutoffDate(olderThanDays)}
  IN  IF storageOk
        THEN [ledger |-> coll \ old, ok |-> TRUE, value |-> Cardinality(old)]
        ELSE [ledger |-> coll, ok |-> FALSE, value |-> 0]

\* The orders a cursor can return the documents S in when no sort is given.
Scans(S) ==
  {q \in [1..Cardinality(S) -> S] : \A i, j \in DOMAIN q : i # j => q[i] # q[j]}

\* sort({timestamp: -1}): the scans with no earlier document before a later one;
\* documents of one timestamp come in an order the store chooses.
SortByTimestampDesc(S) ==
  {q \in Scans(S) : \A i, j \in DOMAIN q : i < j => q[i].timestamp >= q[j].timestamp}

\* cursor.limit(n): the first |n| documents, all of them when n = 0.
Limit(q, n) ==
  LET k == IF n < 0 THEN 0 - n ELSE n
  IN  IF k = 0 \/ k >= Len(q) THEN q ELSE SubSeq(q, 1, k)

\* KeywordMatchModel.getMatchesByUser: the results the call can return.
getMatchesByUser(coll, userId, limit) ==
  {Limit(q, limit) : q \in SortByTimestampDesc({m \in coll : m.userId = userId})}

\* KeywordMatchModel.getRecentMatches.
getRecentMatches(coll, limit) ==
  {Limit(q, limit) : q \in SortByTimestampDesc(coll)}

\* KeywordMatchModel.getMatchesByKeyword.
getMatchesByKeyword(coll, keyword, limit) ==
  {Limit(q, limit) : q \in SortByTimestampDesc({m \in coll : m.keyword = keyword})}

\* getMatchStats called without a userId.
NoUserId == 0

\* The documents find(query) of getMatchStats selects.
StatsQuery(coll, userId, days) ==
  {m \in coll : /\ m.timestamp >= CutoffDate(days)
                /\ userId # NoUserId => m.userId = userId}

RECURSIVE SumOfLengths(_)
\* matches.reduce((sum, match) => sum + match.messageLength, 0)
SumOfLengths(matches) ==
  IF matches = <<>> THEN 0
  ELSE Head(matches).messageLength + SumOfLengths(Tail(matches))

\* Variant for comparison: the average is truncated.
MathFloorOfQuotient(sum, n) == sum \div n

\* Math.round(sum / n) for sum >= 0 and n > 0: halves round up.
MathRoundOfQuotient(sum, n) == (2 * sum + n) \div (2 * n)

RECURSIVE KeysAsAssigned(_, _)
\* The keys of keywordCounts in the order the forEach first assigns them.
KeysAsAssigned(matches, assigned) ==
  IF matches = <<>> THEN <<>>
  ELSE IF Head(matches).keyword \in assigned
    THEN KeysAsAssigned(Tail(matches), assigned)
    ELSE <<Head(matches).keyword>>
         \o KeysAsAssigned(Tail(matches), assigned \cup {Head(matches).keyword})

DigitValue(c) == (CHOOSE i \in 1..Len(Digits) : Digits[i] = c) - 1

RECURSIVE DigitsLeq(_, _)
\* a <= b for canonical decimal numerals a and b.
DigitsLeq(a, b) ==
  IF Len(a) # Len(b) THEN Len(a) < Len(b)
  ELSE IF a = <<>> THEN TRUE
  ELSE IF Head(a) # Head(b) THEN DigitValue(Head(a)) < DigitValue(Head(b))
  ELSE DigitsLeq(Tail(a), Tail(b))

\* 2^32 - 2, the largest array index.
MaxArrayIndex == <<"4", "2", "9", "4", "9", "6", "7", "2", "9", "4">>

\* A property key that is an array index: the canonical decimal form of an
\* integer below 2^32 - 1.
IsArrayIndex(k) ==
  /\ k # <<>>
  /\ \A i \in 1..Len(k) : IsDigit(k[i])
  /\ Len(k) > 1 => k[1] # "0"
  /\ DigitsLeq(k, MaxArrayIndex)

RECURSIVE AscendingIndices(_)
AscendingIndices(S) ==
  IF S = {} THEN <<>>
  ELSE LET m == CHOOSE x \in S : \A y \in S : DigitsLeq(x, y)
       IN  <<m>> \o AscendingIndices(S \ {m})

\* The key order of Object.entries: array indices in ascending numeric order,
\* then the other string keys in the order they were assigned.
OwnPropertyKeys(assigned) ==
  AscendingIndices({assigned[i] : i \in {j \in 1..Len(assigned) :
                                            IsArrayIndex(assigned[j])}})
  \o SelectSeq(assigned, LAMBDA k : ~IsArrayIndex(k))

RECURSIVE SortByCountDesc(_)
\* Array.prototype.sort((a, b) => b.count - a.count), which is stable.
SortByCountDesc(entries) ==
  IF entries = <<>> THEN <<>>
  ELSE LET x      == entries[Len(entries)]
           sorted == SortByCountDesc(SubSeq(entries, 1, Len(entries) - 1))
           ahead  == SelectSeq(sorted, LAMBDA y : y.count >= x.count)
           behind == SelectSeq(sorted, LAMBDA y : y.count < x.count)
       IN  ahead \o <<x>> \o behind

\* slice(0, 10)
TopKeywordsLimit == 10

\* getMatchStats from the documents find returned, in the order it returned them.
MatchStats(matches) ==
  LET totalMatches == Len(matches)
      keys         == OwnPropertyKeys(KeysAsAssigned(matches, {}))
      entries      == [i \in 1..Len(keys) |->
                         [keyword |-> keys[i],
                          count |-> Cardinality({j \in 1..Len(matches) :
                                                  matches[j].keyword = keys[i]})]]
      sorted       == SortByCountDesc(entries)
  IN  [totalMatches |-> totalMatches,
       averageMessageLength |->
         IF totalMatches > 0
           THEN MathRoundOfQuotient(SumOfLengths(matches), totalMatches)
           ELSE 0,
       topKeywords |-> SubSeq(sorted, 1, IF Len(sorted) < TopKeywordsLimit
                                           THEN Len(sorted) ELSE TopKeywordsLimit)]

\* KeywordMatchModel.getMatchStats: the results the call can return, each with the
\* order find returned the documents in; zeroes when the store fails.
getMatchStats(coll, userId, days, storageOk) ==
  IF storageOk
    THEN {[scanned |-> q, value |-> MatchStats(q)] :
            q \in Scans(StatsQuery(coll, userId, days))}
    ELSE {[scanned |-> <<>>,
           value |-> [totalMatches |-> 0, averageMessageLength |-> 0,
                      topKeywords |-> <<>>]]}

\* ----------------------------------------------------------- event handlers
\* One slot per unit of work.  pc is the await the handler is suspended at:
\* "idle" (not delivered), "read" (getAllActiveUsers), "write" (createMatch),
\* "send" (sendNotification), "done".  seen is the directory as the read returned
\* it, writeFailed the (user, keyword) whose createMatch threw, matches the return
\* value of searchKeywordsInMessage, stale the users that were logged out when
\* the handler started and have not authenticated since.
\* raw is the update as the platform client delivered it; via stays "none" for
\* an update the handler returned from before checkKeywordMatches.
IdleEvent ==
  [pc |-> "idle", via |-> "none", ctx |-> <<>>, seen |-> NoDirectory, work |-> <<>>,
   gi |-> 0, readFailed |-> FALSE, writeFailed |-> {}, matches |-> <<>>,
   stale |-> {}, raw |-> [className |-> "none"]]

EventIds == 1..MaxEvents

\* An update that carries a text message with every field present.
TextUpdate(className, chat, id, text) ==
  [className |-> className, missing |-> {}, isString |-> TRUE,
   chatId |-> chat, id |-> id, senderId |-> SenderId, message |-> text]

\* The same update with one defect.
DefectiveUpdate(className, chat, id, text, defect) ==
  IF defect = "notString"
    THEN [TextUpdate(className, chat, id, text) EXCEPT !.isString = FALSE]
    ELSE [TextUpdate(className, chat, id, text) EXCEPT !.missing = {defect}]

\* TelegramUserbotService.client: declared null, and no method assigns it.
client == "null"

\* What client.getEntity can do: throw, or return an entity.
EntityLookups ==
  {[ok |-> FALSE],
   [ok |-> TRUE, entity |-> [title |-> "Team", firstName |-> Undefined,
                             username |-> Undefined]],
   [ok |-> TRUE, entity |-> [title |-> Undefined, firstName |-> "Ann",
                             username |-> "ann"]]}

\* a || b on values that are a non-empty string or undefined.
OrElse(a, b) == IF a = Undefined THEN b ELSE a

\* getChatInfo: null without a client or when the lookup throws.
getChatInfo(cl, lookup) ==
  IF cl = "null" THEN [isNull |-> TRUE]
  ELSE IF ~lookup.ok THEN [isNull |-> TRUE]
  ELSE [isNull |-> FALSE,
        title |-> OrElse(lookup.entity.title,
                         OrElse(lookup.entity.firstName, "Unknown Chat"))]

\* getSenderName: undefined without a client or when the lookup throws.
getSenderName(cl, lookup) ==
  IF cl = "null" THEN Undefined
  ELSE IF ~lookup.ok THEN Undefined
  ELSE OrElse(lookup.entity.firstName,
              OrElse(lookup.entity.username, "Unknown User"))

\* The MessageContext object literal of the handlers.
MessageContext(chat, id, text, senderName, chatTitle) ==
  [chatId |-> chat, messageId |-> id, text |-> text, senderName |-> senderName,
   chatTitle |-> chatTitle, messageLength |-> Len(text)]

\* Variant for comparison: the sender id is not required.
IsTextMessageFromAnyone(event) ==
  /\ "message" \notin event.missing
  /\ event.message # <<>>
  /\ event.isString
  /\ "chatId" \notin event.missing
  /\ "id" \notin event.missing /\ event.id # 0

\* The two early returns of the handlers: the update is a text message with a
\* chat id, a message id and a sender id.
IsTextMessage(event) ==
  /\ "message" \notin event.missing
  /\ event.message # <<>>
  /\ event.isString
  /\ "chatId" \notin event.missing
  /\ "id" \notin event.missing /\ event.id # 0
  /\ "senderId" \notin event.missing

\* handleNewMessage up to the call of checkKeywordMatches: whether it gets there,
\* and the context it passes.
handleNewMessage(event, chatLookup, senderLookup) ==
  LET chat       == getChatInfo(client, chatLookup)
      senderName == getSenderName(client, senderLookup)
  IN  [accepted |-> IsTextMessage(event),
       ctx |-> MessageContext(event.chatId, event.id, event.message, senderName,
                              IF chat.isNull THEN Undefined ELSE chat.title)]

\* Variant for comparison: an edit is compared with the message as first seen and
\* evaluated only when its id is new.
handleEditMessageAsDiff(event, chatLookup, senderLookup) ==
  [handleNewMessage(event, chatLookup, senderLookup) EXCEPT
     !.accepted = @ /\ \A m \in ledger : m.messageId # event.id]

\* handleEditMessage up to the call of checkKeywordMatches.
handleEditMessage(event, chatLookup, senderLookup) ==
  LET chat       == getChatInfo(client, chatLookup)
      senderName == getSenderName(client, senderLookup)
  IN  [accepted |-> IsTextMessage(event),
       ctx |-> MessageContext(event.chatId, event.id, event.message, senderName,
                              IF chat.isNull THEN Undefined ELSE chat.title)]

\* Variant for comparison: the character-limit gate is missing.
WithoutCharacterLimit(ctx, user) == TRUE

\* The character-limit gate of checkKeywordMatches: the user is scanned.
WithinCharacterLimit(ctx, user) == ~(ctx.messageLength > user.characterLimit)

\* Variant for comparison: every keyword of a scanned user is recorded.
matchedKeywordsUnfiltered(user, ctx) ==
  IF user.keywords = <<>> THEN <<>>
  ELSE IF ~WithinCharacterLimit(ctx, user) THEN <<>>
  ELSE user.keywords

\* Variant for comparison: a keyword already recorded for the same message text
\* is skipped.
matchedKeywordsOncePerText(user, ctx) ==
  IF user.keywords = <<>> THEN <<>>
  ELSE IF ~WithinCharacterLimit(ctx, user) THEN <<>>
  ELSE SelectSeq(user.keywords,
                 LAMBDA k : /\ SubstringMatch(ctx.text, k)
                            /\ ~\E m \in ledger : /\ m.userId = user.telegramId
                                                  /\ m.keyword = k
                                                  /\ m.message = ctx.text)

\* checkKeywordMatches, one user: the keywords createMatch is called for.
matchedKeywords(user, ctx) ==
  IF user.keywords = <<>> THEN <<>>
  ELSE IF ~WithinCharacterLimit(ctx, user) THEN <<>>
  ELSE SelectSeq(user.keywords, LAMBDA k : SubstringMatch(ctx.text, k))

\* findUserKeywordMatches, one user: the keywords createMatch is called for.
searchedKeywords(user, ctx) ==
  IF user.keywords = <<>> THEN <<>>
  ELSE SelectSeq(user.keywords, LAMBDA k : isKeywordMatch(ToLowerCase(ctx.text), k))

RECURSIVE Pairs(_, _, _)
\* The (user, keyword) pairs of a scan over activeUsers, in loop order.
Pairs(activeUsers, ctx, via) ==
  IF activeUsers = <<>> THEN <<>>
  ELSE LET user == Head(activeUsers)
           kws  == IF via = "userbot" THEN matchedKeywords(user, ctx)
                   ELSE searchedKeywords(user, ctx)
       IN  [i \in 1..Len(kws) |-> [user |-> user, keyword |-> kws[i]]]
           \o Pairs(Tail(activeUsers), ctx, via)

\* Variant for comparison: the length recorded is the keyword's.
UserbotMatchLengthOfKeyword(user, keyword, ctx) ==
  [userId |-> user.telegramId, keyword |-> keyword, message |-> ctx.text,
   chatId |-> ctx.chatId, messageId |-> ctx.messageId, chatTitle |-> ctx.chatTitle,
   senderName |-> ctx.senderName, messageLength |-> Len(keyword)]

\* The document checkKeywordMatches hands to createMatch.
UserbotMatch(user, keyword, ctx) ==
  [userId |-> user.telegramId, keyword |-> keyword, message |-> ctx.text,
   chatId |-> ctx.chatId, messageId |-> ctx.messageId, chatTitle |-> ctx.chatTitle,
   senderName |-> ctx.senderName, messageLength |-> ctx.messageLength]

\* The document findUserKeywordMatches hands to createMatch: no messageLength.
SearchMatch(user, keyword, ctx) ==
  [userId |-> user.telegramId, keyword |-> keyword, message |-> ctx.text,
   chatId |-> ctx.chatId, messageId |-> ctx.messageId, chatTitle |-> ctx.chatTitle,
   senderName |-> ctx.senderName]

\* Variant for comparison: the user's own chat is alerted besides the groups.
DestinationsWithOwnChat(user) == Append(user.notificationGroups, user.telegramId)

\* sendKeywordNotification: the destinations of one alert.
Destinations(user) ==
  IF Len(user.notificationGroups) > 0 THEN user.notificationGroups
  ELSE <<user.telegramId>>

\* Variant for comparison: the alert shows the looked-up title as it is.
ChatLabelAsLookedUp(ctx) == ctx.chatTitle

\* The Chat: line of the alert: chatTitle || 'Unknown Chat'.
ChatLabel(ctx) == OrElse(ctx.chatTitle, "Unknown Chat")

\* The From: line of the alert: senderName || 'Unknown User'.
SenderLabel(ctx) == OrElse(ctx.senderName, "Unknown User")

\* Failures injected so far.
Failures ==
  Cardinality({s \in sends : ~s.ok})
  + Cardinality({e \in EventIds : events[e].readFailed})
  + Cardinality({e \in EventIds : events[e].writeFailed # {}})

\* The outcomes an I/O call can have.
Outcomes == IF Failures < MaxFailures THEN {TRUE, FALSE} ELSE {TRUE}

\* Variant for comparison: the catch blocks rethrow, as those of the models do.
HandlerRethrows(thrown) == thrown

\* An error thrown inside checkKeywordMatches leaves the event handler: the
\* try/catch of checkKeywordMatches, of handleNewMessage and of the handler
\* registered by setupEventHandlers each log and return.
HandlerRaises(thrown) == FALSE

\* A failed send leaves sendKeywordNotification: sendNotification catches the
\* error of sendMessage, as do the per-group and the outer try/catch.
DispatcherRaises(sendOk) == FALSE

\* Variant for comparison: the failure path removes the entry of the match.
OnSendFailureRollback(coll, matchId) == {m \in coll : m._id # matchId}

\* The catch blocks a failed send runs (sendNotification, the group loop): they
\* log, and the collection is as it was.
OnSendFailure(coll, matchId) == coll

\* Variant for comparison: the group loop ends at the first failed send.
NextDestinationUntilFailure(gi, dests, sendOk) ==
  IF sendOk /\ gi < Len(dests) THEN gi + 1 ELSE 0

\* The index of the destination the group loop turns to after a send, 0 when the
\* loop is over.
NextDestination(gi, dests, sendOk) == IF gi < Len(dests) THEN gi + 1 ELSE 0

\* The _id the KeywordMatch constructor gives the document of the write handler e
\* is suspended at: a fresh token, here the handler and the ordinal of the pair
\* in its scan.
MatchId(e) ==
  LET ev  == events[e]
      all == Pairs(getAllActiveUsers(ev.seen), ev.ctx, ev.via)
  IN  <<e, Len(all) - Len(ev.work) + 1>>

\* pc after the pair at the head of work is finished.
AfterPair(work) == IF Len(work) > 1 THEN "write" ELSE "done"

\* ------------------------------------------------------------------ actions
Delivered(e) == events[e].pc # "idle"

\* The users whose record has the authenticated flag cleared.
LoggedOut == {u \in Users : users[u] # NoUser /\ ~users[u].isAuthenticated}

\* The two handlers setupEventHandlers registers, run on one update up to the
\* first await of checkKeywordMatches: the state of the unit of work.
Dispatch(event, chatLookup, senderLookup) ==
  LET r == IF event.className = UpdateNewMessage
             THEN handleNewMessage(event, chatLookup, senderLookup)
             ELSE handleEditMessage(event, chatLookup, senderLookup)
  IN  IF r.accepted
        THEN [IdleEvent EXCEPT !.pc = "read", !.via = "userbot", !.ctx = r.ctx,
                               !.stale = LoggedOut, !.raw = event]
        ELSE [IdleEvent EXCEPT !.pc = "done", !.raw = event]

\* The platform client delivers a new-message event: the handler registered by
\* setupEventHandlers runs handleNewMessage up to the directory read.
Deliver(e) ==
  /\ ~Delivered(e)
  /\ \A d \in EventIds : d < e => Delivered(d)
  /\ \E text \in Texts, chat \in Chats, chatLookup, senderLookup \in EntityLookups :
       events' = [events EXCEPT ![e] =
                    Dispatch(TextUpdate(UpdateNewMessage, chat, e, text),
                             chatLookup, senderLookup)]
  /\ UNCHANGED <<users, ledger, sends, raised, now, reply, surface>>

\* The platform client delivers an edited-message event for the message of an
\* earlier event, or for one this process has not seen.
DeliverEdit(e) ==
  /\ ~Delivered(e)
  /\ \A d \in EventIds : d < e => Delivered(d)
  /\ \E text \in Texts, chat \in Chats, id \in 1..e,
        chatLookup, senderLookup \in EntityLookups :
       events' = [events EXCEPT ![e] =
                    Dispatch(TextUpdate(UpdateEditMessage, chat, id, text),
                             chatLookup, senderLookup)]
  /\ UNCHANGED <<users, ledger, sends, raised, now, reply, surface>>

\* The platform client delivers an update of either class that is not a complete
\* text message (a media message, a service message).
DeliverDefective(e) ==
  /\ ~Delivered(e)
  /\ \A d \in EventIds : d < e => Delivered(d)
  /\ \E className \in {UpdateNewMessage, UpdateEditMessage}, defect \in Defects,
        text \in Texts, chat \in Chats, chatLookup, senderLookup \in EntityLookups :
       events' = [events EXCEPT ![e] =
                    Dispatch(DefectiveUpdate(className, chat, e, text, defect),
                             chatLookup, senderLookup)]
  /\ UNCHANGED <<users, ledger, sends, raised, now, reply, surface>>

\* A caller invokes KeywordSearchService.searchKeywordsInMessage.
Search(e) ==
  /\ ~Delivered(e)
  /\ \A d \in EventIds : d < e => Delivered(d)
  /\ \E text \in Texts, chat \in Chats :
       events' = [events EXCEPT ![e] =
                    [IdleEvent EXCEPT !.pc = "read", !.via = "search",
                                      !.ctx = MessageContext(chat, e, text,
                                                             Undefined, Undefined),
                                      !.stale = LoggedOut]]
  /\ UNCHANGED <<users, ledger, sends, raised, now, reply, surface>>

\* await this.userModel.getAllActiveUsers() returns or throws.
ReadDirectory(e) ==
  /\ events[e].pc = "read"
  /\ \E ok \in Outcomes :
       LET ev   == events[e]
           work == Pairs(getAllActiveUsers(users), ev.ctx, ev.via)
       IN  /\ events' = [events EXCEPT ![e] =
                IF ok
                  THEN [ev EXCEPT !.seen = users, !.work = work,
                                  !.pc = IF work = <<>> THEN "done" ELSE "write"]
                  ELSE [ev EXCEPT !.readFailed = TRUE, !.pc = "done"]]
           /\ raised' = IF ~ok /\ ev.via = "userbot" /\ HandlerRaises(TRUE)
                          THEN raised \cup {"handler"} ELSE raised
  /\ UNCHANGED <<users, ledger, sends, now, reply, surface>>

\* await this.keywordMatchModel.createMatch(...) returns or throws.  In the
\* userbot a throw ends the scan (the catch of checkKeywordMatches); in the
\* search service it is caught per match and the loop goes on.
WriteLedger(e) ==
  /\ events[e].pc = "write"
  /\ \E storageOk \in Outcomes :
       LET ev   == events[e]
           pair == Head(ev.work)
           doc  == IF ev.via = "userbot"
                     THEN UserbotMatch(pair.user, pair.keyword, ev.ctx)
                     ELSE SearchMatch(pair.user, pair.keyword, ev.ctx)
           r    == createMatch(ledger, doc, MatchId(e), storageOk)
       IN  /\ ledger' = r.ledger
           /\ events' = [events EXCEPT ![e] =
                IF ev.via = "userbot"
                  THEN IF r.ok
                         THEN [ev EXCEPT !.pc = "send", !.gi = 1]
                         ELSE [ev EXCEPT !.writeFailed = {<<doc.userId, doc.keyword>>},
                                         !.pc = "done",
                                         !.work = <<>>]
                  ELSE [ev EXCEPT !.matches = IF r.ok THEN Append(@, doc) ELSE @,
                                  !.work = Tail(@), !.pc = AfterPair(ev.work)]]
           /\ raised' = IF ~r.ok /\ ev.via = "userbot" /\ HandlerRaises(TRUE)
                          THEN raised \cup {"handler"} ELSE raised
  /\ UNCHANGED <<users, sends, now, reply, surface>>

\* await this.botService.sendNotification(dest, notificationMessage): one send of
\* the alert for the pair at the head of work.
SendNotification(e) ==
  /\ events[e].pc = "send"
  /\ \E ok \in Outcomes :
       LET ev    == events[e]
           pair  == Head(ev.work)
           dests == Destinations(pair.user)
           next  == NextDestination(ev.gi, dests, ok)
       IN  /\ ledger' = IF ok THEN ledger ELSE OnSendFailure(ledger, MatchId(e))
           /\ sends' = sends \cup
                {[event |-> e, userId |-> pair.user.telegramId,
                  keyword |-> pair.keyword, dest |-> dests[ev.gi],
                  idx |-> ev.gi, ok |-> ok, chat |-> ChatLabel(ev.ctx),
                  from |-> SenderLabel(ev.ctx)]}
           /\ events' = [events EXCEPT ![e] =
                IF DispatcherRaises(ok)
                  THEN [ev EXCEPT !.pc = "done", !.work = <<>>, !.gi = 0]
                ELSE IF next # 0
                  THEN [ev EXCEPT !.gi = next]
                  ELSE [ev EXCEPT !.gi = 0, !.work = Tail(@),
                                  !.pc = AfterPair(ev.work)]]
           /\ raised' = IF DispatcherRaises(ok)
                          THEN raised \cup {"dispatcher"} ELSE raised
  /\ UNCHANGED <<users, now, reply, surface>>

\* ---------------------------------------------------------- command surface
\* A message sent to the bot: its first word, kept as one token, followed by the
\* characters after it.
Message(word, rest) == <<word>> \o rest

RECURSIVE SplitOnAcc(_, _, _)
SplitOnAcc(s, cur, sep) ==
  IF s = <<>> THEN <<cur>>
  ELSE IF Head(s) = sep
    THEN <<cur>> \o SplitOnAcc(Tail(s), <<>>, sep)
    ELSE SplitOnAcc(Tail(s), Append(cur, Head(s)), sep)

\* String.prototype.split(sep) for a one-character separator: every separator
\* ends a piece, so two in a row yield an empty piece.
SplitOn(s, sep) == SplitOnAcc(s, <<>>, sep)

RECURSIVE Join(_, _)
\* Array.prototype.join(sep).
Join(pieces, sep) ==
  IF pieces = <<>> THEN <<>>
  ELSE IF Len(pieces) = 1 THEN pieces[1]
  ELSE pieces[1] \o <<sep>> \o Join(Tail(pieces), sep)

\* text.split(" ").slice(1).join(" "): what follows the first space.
AfterFirstWord(text) == Join(Tail(SplitOn(text, " ")), " ")

\* A JavaScript number that is an integer, and NaN.
Num(n) == [nan |-> FALSE, value |-> n]
NaN == [nan |-> TRUE, value |-> 0]

RECURSIVE DigitsPrefix(_)
\* The longest prefix of s made of decimal digits.
DigitsPrefix(s) ==
  IF s # <<>> /\ IsDigit(Head(s)) THEN <<Head(s)>> \o DigitsPrefix(Tail(s)) ELSE <<>>

RECURSIVE DecimalValue(_)
DecimalValue(ds) ==
  IF ds = <<>> THEN 0
  ELSE 10 * DecimalValue(SubSeq(ds, 1, Len(ds) - 1)) + DigitValue(ds[Len(ds)])

\* parseInt(s): leading white space is skipped, a sign is read, then as many
\* digits as follow; what comes after them is ignored; no digit gives NaN.
parseInt(s) ==
  LET t      == TrimStart(s)
      signed == t # <<>> /\ Head(t) \in {"-", "+"}
      body   == IF signed THEN Tail(t) ELSE t
      ds     == DigitsPrefix(body)
  IN  IF ds = <<>> THEN NaN
      ELSE IF signed /\ Head(t) = "-" THEN Num(0 - DecimalValue(ds))
      ELSE Num(DecimalValue(ds))

\* parseInt(pieces[i]) for the 0-based index i; parseInt(undefined) is NaN.
parseIntAt(pieces, i) ==
  IF i + 1 > Len(pieces) THEN NaN ELSE parseInt(pieces[i + 1])

\* Number(s) for a string of the alphabet: white space around is dropped, the
\* empty string is 0, a sign and digits are their value, all else is NaN.
Number(s) ==
  LET t      == Trim(s)
      signed == t # <<>> /\ Head(t) \in {"-", "+"}
      body   == IF signed THEN Tail(t) ELSE t
  IN  IF t = <<>> THEN Num(0)
      ELSE IF body = <<>> \/ DigitsPrefix(body) # body THEN NaN
      ELSE IF Head(t) = "-" THEN Num(0 - DecimalValue(body))
      ELSE Num(DecimalValue(body))

\* !x for a number x: NaN and 0 are falsy.
Falsy(x) == x.nan \/ x.value = 0

\* What the bot did with an update: the handler, the sender, the message and
\* the reply it gave ("silent" when it gave none).
Answer(cmd, u, text, kind) == [cmd |-> cmd, user |-> u, text |-> text, kind |-> kind]

\* updateOne on the document of a user: the schema option timestamps sets
\* updatedAt to the current time on every update, and modifiedCount counts the
\* document when the update changed it.
updateOne(user, updated) ==
  IF user = NoUser
    THEN [user |-> NoUser, modifiedCount |-> 0]
    ELSE LET stamped == [updated EXCEPT !.updatedAt = now]
         IN  [user |-> stamped, modifiedCount |-> IF stamped # user THEN 1 ELSE 0]

\* $addToSet: the value is appended unless an equal element is in the array.
AddToSet(array, value) ==
  IF \E i \in 1..Len(array) : array[i] = value THEN array ELSE Append(array, value)

\* $pull: every element equal to the value is removed.
Pull(array, value) == SelectSeq(array, LAMBDA x : x # value)

\* UserModel.addKeyword: {$addToSet: {keywords: keyword}}, the keyword trimmed
\* by the schema.
addKeyword(user, keyword) ==
  updateOne(user,
    IF user = NoUser THEN user
    ELSE [user EXCEPT !.keywords = AddToSet(@, Trim(keyword))])

\* Variant for comparison: the update leaves the keywords as they are.
removeKeywordKeeping(user, keyword) == updateOne(user, user)

\* UserModel.removeKeyword: {$pull: {keywords: keyword}}.
removeKeyword(user, keyword) ==
  updateOne(user,
    IF user = NoUser THEN user
    ELSE [user EXCEPT !.keywords = Pull(@, Trim(keyword))])

\* Variant for comparison: a record is enough, whatever its authenticated flag.
LoggedInWithAnyRecord(user) == user # NoUser

\* The test every settings command makes before it writes.
LoggedIn(user) == user # NoUser /\ user.isAuthenticated

\* bot.command("addkeyword"): the directory after the command and the reply.
addkeywordCommand(dir, u, text, storageOk) ==
  LET keyword == Trim(AfterFirstWord(text))
      r       == addKeyword(dir[u], keyword)
  IN  IF keyword = <<>> THEN [users |-> dir, kind |-> "usage"]
      ELSE IF ~storageOk THEN [users |-> dir, kind |-> "error"]
      ELSE IF ~LoggedIn(dir[u]) THEN [users |-> dir, kind |-> "loginFirst"]
      ELSE [users |-> [dir EXCEPT ![u] = r.user],
            kind  |-> IF r.modifiedCount > 0 THEN "added" ELSE "alreadyListed"]

\* bot.command("removekeyword").
removekeywordCommand(dir, u, text, storageOk) ==
  LET keyword == Trim(AfterFirstWord(text))
      r       == removeKeyword(dir[u], keyword)
  IN  IF keyword = <<>> THEN [users |-> dir, kind |-> "usage"]
      ELSE IF ~storageOk THEN [users |-> dir, kind |-> "error"]
      ELSE IF ~LoggedIn(dir[u]) THEN [users |-> dir, kind |-> "loginFirst"]
      ELSE [users |-> [dir EXCEPT ![u] = r.user],
            kind  |-> IF r.modifiedCount > 0 THEN "removed" ELSE "notFound"]

\* What users type after /addkeyword and /removekeyword.
KeywordArgs == {<<>>, <<" ", "a">>, <<" ", "A">>, <<" ", " ", "B", " ">>}

\* The bot handles /addkeyword from user u.
AddKeywordCmd(u, rest) ==
  /\ \E storageOk \in BOOLEAN :
       LET text == Message("/addkeyword", rest)
           r    == addkeywordCommand(users, u, text, storageOk)
       IN  /\ users' = r.users
           /\ answer' = Answer("/addkeyword", u, text, r.kind)
  /\ UNCHANGED <<proc, ledger, sends, events, raised, now, reply,
                 sessions, pendingAuth, dialog, clients, userbot>>

\* The bot handles /removekeyword from user u.
RemoveKeywordCmd(u, rest) ==
  /\ \E storageOk \in BOOLEAN :
       LET text == Message("/removekeyword", rest)
           r    == removekeywordCommand(users, u, text, storageOk)
       IN  /\ users' = r.users
           /\ answer' = Answer("/removekeyword", u, text, r.kind)
  /\ UNCHANGED <<proc, ledger, sends, events, raised, now, reply,
                 sessions, pendingAuth, dialog, clients, userbot>>

\* Math.max and Math.min on integers.
MathMax(a, b) == IF a >= b THEN a ELSE b
MathMin(a, b) == IF a <= b THEN a ELSE b

\* Variant for comparison: the limit is stored as given.
setCharacterLimitAsGiven(user, characterLimit) ==
  updateOne(user, IF user = NoUser THEN user
                  ELSE [user EXCEPT !.characterLimit = characterLimit])

\* UserModel.setCharacterLimit: {characterLimit: Math.max(1, Math.min(1000, n))}.
setCharacterLimit(user, characterLimit) ==
  updateOne(user,
    IF user = NoUser THEN user
    ELSE [user EXCEPT !.characterLimit =
            MathMax(MinCharacterLimit, MathMin(MaxCharacterLimit, characterLimit))])

\* UserModel.addNotificationGroup: {$addToSet: {notificationGroups: groupId}}.
addNotificationGroup(user, groupId) ==
  updateOne(user, IF user = NoUser THEN user
                  ELSE [user EXCEPT !.notificationGroups = AddToSet(@, groupId)])

\* UserModel.removeNotificationGroup: {$pull: {notificationGroups: groupId}}.
removeNotificationGroup(user, groupId) ==
  updateOne(user, IF user = NoUser THEN user
                  ELSE [user EXCEPT !.notificationGroups = Pull(@, groupId)])

\* UserModel.setNotificationGroups: {notificationGroups: groups}.
setNotificationGroups(user, groups) ==
  updateOne(user, IF user = NoUser THEN user
                  ELSE [user EXCEPT !.notificationGroups = groups])

\* bot.command("setlimit").
setlimitCommand(dir, u, text, storageOk) ==
  LET limit == parseIntAt(SplitOn(text, " "), 1)
      r     == setCharacterLimit(dir[u], limit.value)
  IN  IF Falsy(limit) \/ limit.value < MinCharacterLimit
                      \/ limit.value > MaxCharacterLimit
        THEN [users |-> dir, kind |-> "usage"]
      ELSE IF ~storageOk THEN [users |-> dir, kind |-> "error"]
      ELSE IF ~LoggedIn(dir[u]) THEN [users |-> dir, kind |-> "loginFirst"]
      ELSE [users |-> [dir EXCEPT ![u] = r.user],
            kind  |-> IF r.modifiedCount > 0 THEN "set" ELSE "failed"]

\* bot.command("setnotification"): chatId is text.split(" ").slice(1)[0].
setnotificationCommand(dir, u, text, storageOk) ==
  LET args    == Tail(SplitOn(text, " "))
      missing == args = <<>> \/ args[1] = <<>>
      chatId  == IF missing THEN NaN ELSE Number(args[1])
      r       == setNotificationGroups(dir[u], <<chatId.value>>)
  IN  IF missing \/ chatId.nan THEN [users |-> dir, kind |-> "usage"]
      ELSE IF ~storageOk THEN [users |-> dir, kind |-> "error"]
      ELSE IF ~LoggedIn(dir[u]) THEN [users |-> dir, kind |-> "loginFirst"]
      ELSE [users |-> [dir EXCEPT ![u] = r.user],
            kind  |-> IF r.modifiedCount > 0 THEN "set" ELSE "failed"]

\* bot.command("addgroup").
addgroupCommand(dir, u, text, storageOk) ==
  LET groupId == parseIntAt(SplitOn(text, " "), 1)
      r       == addNotificationGroup(dir[u], groupId.value)
  IN  IF Falsy(groupId) THEN [users |-> dir, kind |-> "usage"]
      ELSE IF ~storageOk THEN [users |-> dir, kind |-> "error"]
      ELSE IF ~LoggedIn(dir[u]) THEN [users |-> dir, kind |-> "loginFirst"]
      ELSE [users |-> [dir EXCEPT ![u] = r.user],
            kind  |-> IF r.modifiedCount > 0 THEN "added" ELSE "alreadyListed"]

\* bot.command("removegroup").
removegroupCommand(dir, u, text, storageOk) ==
  LET groupId == parseIntAt(SplitOn(text, " "), 1)
      r       == removeNotificationGroup(dir[u], groupId.value)
  IN  IF Falsy(groupId) THEN [users |-> dir, kind |-> "usage"]
      ELSE IF ~storageOk THEN [users |-> dir, kind |-> "error"]
      ELSE IF ~LoggedIn(dir[u]) THEN [users |-> dir, kind |-> "loginFirst"]
      ELSE [users |-> [dir EXCEPT ![u] = r.user],
            kind  |-> IF r.modifiedCount > 0 THEN "removed" ELSE "notFound"]

\* groupsText.split(",").map((id) => parseInt(id.trim())): every piece parsed.
ParsedGroupIds(groupsText) ==
  LET pieces == SplitOn(groupsText, ",")
  IN  [i \in 1..Len(pieces) |-> parseInt(Trim(pieces[i]))]

\* .filter((id) => !isNaN(id)): the ids that are numbers, in order.
ValidGroupIds(groupsText) ==
  LET kept == SelectSeq(ParsedGroupIds(groupsText), LAMBDA x : ~x.nan)
  IN  [i \in 1..Len(kept) |-> kept[i].value]

\* bot.command("setgroups").
setgroupsCommand(dir, u, text, storageOk) ==
  LET groupsText == AfterFirstWord(text)
      groupIds   == ValidGroupIds(groupsText)
      r          == setNotificationGroups(dir[u], groupIds)
  IN  IF groupsText = <<>> THEN [users |-> dir, kind |-> "usage"]
      ELSE IF groupIds = <<>> THEN [users |-> dir, kind |-> "invalid"]
      ELSE IF ~storageOk THEN [users |-> dir, kind |-> "error"]
      ELSE IF ~LoggedIn(dir[u]) THEN [users |-> dir, kind |-> "loginFirst"]
      ELSE [users |-> [dir EXCEPT ![u] = r.user],
            kind  |-> IF r.modifiedCount > 0 THEN "set" ELSE "failed"]

\* What users type after /setlimit, after /setnotification and /addgroup, and
\* after /setgroups.
LimitArgs ==
  {<<>>, <<" ", "0">>, <<" ", "5">>, <<" ", "1", "0", "0">>,
   <<" ", "1", "0", "0", "1">>, <<" ", "a">>, <<" ", "5", "a">>}
GroupArgs == {<<>>, <<" ", "7">>, <<" ", "a">>, <<" ", "7", "a">>}
GroupsArgs ==
  {<<>>, <<" ", "7">>, <<" ", "7", ",", "8">>, <<" ", "7", ",", "a">>, <<" ", "a">>,
   <<" ", "7", ",", "7">>}

\* The bot handles /setlimit from user u.
SetLimitCmd(u, rest) ==
  /\ \E storageOk \in BOOLEAN :
       LET text == Message("/setlimit", rest)
           r    == setlimitCommand(users, u, text, storageOk)
       IN  /\ users' = r.users
           /\ answer' = Answer("/setlimit", u, text, r.kind)
  /\ UNCHANGED <<proc, ledger, sends, events, raised, now, reply,
                 sessions, pendingAuth, dialog, clients, userbot>>

\* The bot handles /setnotification from user u.
SetNotificationCmd(u, rest) ==
  /\ \E storageOk \in BOOLEAN :
       LET text == Message("/setnotification", rest)
           r    == setnotificationCommand(users, u, text, storageOk)
       IN  /\ users' = r.users
           /\ answer' = Answer("/setnotification", u, text, r.kind)
  /\ UNCHANGED <<proc, ledger, sends, events, raised, now, reply,
                 sessions, pendingAuth, dialog, clients, userbot>>

\* The bot handles /addgroup from user u.
AddGroupCmd(u, rest) ==
  /\ \E storageOk \in BOOLEAN :
       LET text == Message("/addgroup", rest)
           r    == addgroupCommand(users, u, text, storageOk)
       IN  /\ users' = r.users
           /\ answer' = Answer("/addgroup", u, text, r.kind)
  /\ UNCHANGED <<proc, ledger, sends, events, raised, now, reply,
                 sessions, pendingAuth, dialog, clients, userbot>>

\* The bot handles /removegroup from user u.
RemoveGroupCmd(u, rest) ==
  /\ \E storageOk \in BOOLEAN :
       LET text == Message("/removegroup", rest)
           r    == removegroupCommand(users, u, text, storageOk)
       IN  /\ users' = r.users
           /\ answer' = Answer("/removegroup", u, text, r.kind)
  /\ UNCHANGED <<proc, ledger, sends, events, raised, now, reply,
                 sessions, pendingAuth, dialog, clients, userbot>>

\* The bot handles /setgroups from user u.
SetGroupsCmd(u, rest) ==
  /\ \E storageOk \in BOOLEAN :
       LET text == Message("/setgroups", rest)
           r    == setgroupsCommand(users, u, text, storageOk)
       IN  /\ users' = r.users
           /\ answer' = Answer("/setgroups", u, text, r.kind)
  /\ UNCHANGED <<proc, ledger, sends, events, raised, now, reply,
                 sessions, pendingAuth, dialog, clients, userbot>>

\* The limits setCharacterLimit is called with.
LimitValues == {0 - 5, 0, 5, 1001}

\* A call of UserModel.setCharacterLimit.
SetCharacterLimit(u, n) ==
  /\ \E storageOk \in BOOLEAN :
       LET r == setCharacterLimit(users[u], n)
       IN  /\ users' = IF storageOk THEN [users EXCEPT ![u] = r.user] ELSE users
           /\ reply' = [op |-> "setCharacterLimit", ok |-> storageOk, userId |-> u,
                        characterLimit |-> n,
                        value |-> storageOk /\ r.modifiedCount > 0]
  /\ UNCHANGED <<ledger, sends, events, raised, now, surface>>

\* UserModel.updateUser: findOneAndUpdate({telegramId}, updateData); the fields
\* of updateData replace those of the document, which stays absent if it was.
updateUser(user, updateData) ==
  IF user = NoUser THEN NoUser
  ELSE [(updateData @@ user) EXCEPT !.updatedAt = now]

\* Variant for comparison: logout removes the user's document.
logoutCommandDeletingRecord(dir, u, storageOk) ==
  IF ~storageOk THEN [users |-> dir, kind |-> "error"]
  ELSE [users |-> [dir EXCEPT ![u] = NoUser], kind |-> "loggedOut"]

\* bot.command("logout"): updateUser(ctx.from.id, {isAuthenticated: false}).
logoutCommand(dir, u, storageOk) ==
  IF ~storageOk THEN [users |-> dir, kind |-> "error"]
  ELSE [users |-> [dir EXCEPT ![u] = updateUser(@, [isAuthenticated |-> FALSE])],
        kind  |-> "loggedOut"]

\* The bot handles /logout from user u.
Logout(u) ==
  /\ \E storageOk \in BOOLEAN :
       LET r == logoutCommand(users, u, storageOk)
       IN  /\ users' = r.users
           /\ answer' = Answer("/logout", u, <<"/logout">>, r.kind)
  /\ UNCHANGED <<proc, ledger, sends, events, raised, now, reply,
                 sessions, pendingAuth, dialog, clients, userbot>>

\* Variant for comparison: every call inserts a record.
saveAuthSessionByInsert(coll, sessionData) ==
  coll \cup {[createdAt |-> now, updatedAt |-> now] @@ sessionData}

\* UserModel.saveAuthSession: findOneAndUpdate({userId}, sessionData,
\* {upsert: true}) sets the fields of the record of that user, or inserts one;
\* the schema option timestamps dates the record.
saveAuthSession(coll, sessionData) ==
  LET found == {r \in coll : r.userId = sessionData.userId}
  IN  IF found = {}
        THEN coll \cup {[createdAt |-> now, updatedAt |-> now] @@ sessionData}
        ELSE LET r == CHOOSE x \in found : TRUE
             IN  (coll \ {r}) \cup {[updatedAt |-> now] @@ sessionData @@ r}

\* The record processPhoneCode and processPassword save.
SessionData(u, phoneNumber, sessionString) ==
  [userId |-> u, phoneNumber |-> phoneNumber, sessionString |-> sessionString,
   isActive |-> TRUE]

\* /^\+[1-9]\d{1,14}$/.test(text)
PhoneRegexTest(text) ==
  /\ Len(text) >= 3 /\ Len(text) <= 16
  /\ text[1] = "+"
  /\ IsDigit(text[2]) /\ text[2] # "0"
  /\ \A i \in 3..Len(text) : IsDigit(text[i])

\* this.userbotService of the bot: Application constructs both services and
\* never calls setUserbotService, so the field stays undefined.
userbotService == Undefined

\* TelegramUserbotService.startUserbotForUser: activeUsers after the call, for
\* the outcome of createAuthenticatedClient's connect().
startUserbotForUser(dir, coll, active, u, connectOk) ==
  IF dir[u] = NoUser \/ dir[u].sessionString = <<>> THEN active
  ELSE IF ~connectOk \/ ~\E r \in coll : r.userId = u /\ r.sessionString # <<>>
    THEN active
  ELSE active \cup {u}

\* getUserByPhoneNumber(text) finds a document.
UserWithPhone(dir, text) ==
  \E v \in Users : dir[v] # NoUser /\ dir[v].phoneNumber = text

\* What processPhoneCode or processPassword followed by the success branch of
\* the text handler does for user u whose message is text: the session is
\* saved, the user's document is marked authenticated, the pendingAuth entry is
\* deleted; then a document is created unless one has text as phone number,
\* which throws into bot.catch when u has a document already; then the userbot
\* is started if the service was injected, and the success is confirmed.
authenticated(st, u, text, phoneNumber, connectOk) ==
  LET coll    == saveAuthSession(st.sessions, SessionData(u, phoneNumber, Session))
      marked  == [st.users EXCEPT ![u] =
                    updateUser(@, [isAuthenticated |-> TRUE,
                                   sessionString |-> Session])]
      pending == [st.pendingAuth EXCEPT ![u] = NoPending]
      create  == ~UserWithPhone(marked, text)
      dir     == IF create /\ marked[u] = NoUser
                   THEN [marked EXCEPT ![u] = createUser(NewUserData(u, text))]
                   ELSE marked
  IN  IF create /\ marked[u] # NoUser
        THEN [users |-> marked, sessions |-> coll, pendingAuth |-> pending,
              clients |-> st.clients, kind |-> "error"]
        ELSE [users |-> dir, sessions |-> coll, pendingAuth |-> pending,
              clients |-> IF userbotService # Undefined
                            THEN startUserbotForUser(dir, coll, st.clients, u,
                                                     connectOk)
                            ELSE st.clients,
              kind |-> "authenticated"]

\* The accounts that have two-factor authentication on, and their password.
TwoFactorUsers == {2}
Password == <<"b">>

\* TelegramAuthService.startAuthentication: the entry it stores.
startAuthentication(phoneNumber) == [step |-> "phone", phoneNumber |-> phoneNumber]

\* bot.on("text"): the handler acts only on a user who has a pendingAuth entry,
\* by the step of the entry; st is the state it reads and the result is the
\* state it leaves with the reply.
textHandler(st, u, text, connectOk) ==
  LET entry == st.pendingAuth[u]
      same  == [users |-> st.users, sessions |-> st.sessions,
                pendingAuth |-> st.pendingAuth, clients |-> st.clients]
  IN  IF entry = NoPending THEN [kind |-> "silent"] @@ same
      ELSE IF entry.step = "phone"
        THEN IF ~PhoneRegexTest(text) THEN [kind |-> "invalidPhone"] @@ same
             ELSE [pendingAuth |-> [st.pendingAuth EXCEPT
                                      ![u] = startAuthentication(text)],
                   kind |-> "phoneReceived"] @@ same
      ELSE IF entry.step = "code"
        THEN IF text # VerificationCode THEN [kind |-> "failed"] @@ same
             ELSE IF u \in TwoFactorUsers
               THEN [pendingAuth |-> [st.pendingAuth EXCEPT ![u].step = "password"],
                     kind |-> "passwordRequired"] @@ same
             ELSE authenticated(st, u, text, entry.phoneNumber, connectOk)
      ELSE IF text # Password THEN [kind |-> "passwordFailed"] @@ same
           ELSE authenticated(st, u, text, entry.phoneNumber, connectOk)

\* The messages of the login script and how far a user has come in it: after
\* /login the phone number, after the phone number the verification code, and
\* for an account with two-factor authentication the password after that.
NoDialog == [stage |-> "idle", phoneNumber |-> <<>>]

Advance(d, u, text) ==
  IF d.stage = "login" /\ PhoneRegexTest(text)
    THEN [stage |-> "phone", phoneNumber |-> text]
  ELSE IF d.stage = "phone" /\ text = VerificationCode
    THEN [d EXCEPT !.stage = IF u \in TwoFactorUsers THEN "code" ELSE "done"]
  ELSE IF d.stage = "code" /\ text = Password
    THEN [d EXCEPT !.stage = "done"]
  ELSE d

\* bot.command("login"): the bot asks for the phone number.
Login(u) ==
  /\ answer' = Answer("/login", u, <<"/login">>, "askPhone")
  /\ dialog' = [dialog EXCEPT ![u] = [NoDialog EXCEPT !.stage = "login"]]
  /\ UNCHANGED <<proc, users, ledger, sends, events, raised, now, reply,
                 sessions, pendingAuth, clients, userbot>>

\* The bot handles a text message of user u that is no command.
TextMessage(u, text) ==
  /\ \E connectOk \in BOOLEAN :
       LET st == [users |-> users, sessions |-> sessions,
                  pendingAuth |-> pendingAuth, clients |-> clients]
           r  == textHandler(st, u, text, connectOk)
       IN  /\ users' = r.users
           /\ sessions' = r.sessions
           /\ pendingAuth' = r.pendingAuth
           /\ clients' = r.clients
           /\ answer' = Answer("text", u, text, r.kind)
  /\ dialog' = [dialog EXCEPT ![u] = Advance(@, u, text)]
  /\ UNCHANGED <<proc, userbot, ledger, sends, events, raised, now, reply>>

\* The credentials saveAuthSession is called with.
SessionStrings == {Session, <<"t">>}

\* A call of UserModel.saveAuthSession.
SaveAuthSession(u, sessionString) ==
  /\ \E storageOk \in BOOLEAN :
       LET sessionData == SessionData(u, PhoneOf(u), sessionString)
       IN  /\ sessions' = IF storageOk THEN saveAuthSession(sessions, sessionData)
                          ELSE sessions
           /\ reply' = [op |-> "saveAuthSession", ok |-> storageOk,
                        value |-> sessionData]
  /\ UNCHANGED <<proc, users, ledger, sends, events, raised, now,
                 pendingAuth, dialog, answer, clients, userbot>>

\* A login that succeeds: the code step of the text handler run for user u on
\* the verification code, with the phone number of the user's pendingAuth entry.
Authenticate(u) ==
  /\ \E connectOk \in BOOLEAN :
       LET st == [users |-> users, sessions |-> sessions,
                  pendingAuth |-> pendingAuth, clients |-> clients]
           r  == authenticated(st, u, VerificationCode, PhoneOf(u), connectOk)
       IN  /\ users' = r.users
           /\ sessions' = r.sessions
           /\ pendingAuth' = r.pendingAuth
           /\ clients' = r.clients
           /\ answer' = Answer("text", u, VerificationCode, r.kind)
  /\ events' = [e \in EventIds |-> [events[e] EXCEPT !.stale = @ \ {u}]]
  /\ UNCHANGED <<proc, userbot, ledger, sends, raised, now, reply, dialog>>

\* ------------------------------------------------------------ the process
\* A variable of process.env: not set, or set to a string.
Unset == [set |-> FALSE]
Set(value) == [set |-> TRUE, value |-> value]

\* process.env.X || d
OrDefault(x, d) == IF ~x.set \/ x.value = <<>> THEN d ELSE x.value

\* The environments the process is started in.
Environments ==
  [BOT_TOKEN : {Unset, Set(<<>>), Set(<<"t">>)},
   API_ID    : {Unset, Set(<<>>), Set(<<"0">>), Set(<<"1", "2">>),
                Set(<<"a">>), Set(<<"7", "a">>)},
   API_HASH  : {Unset, Set(<<>>), Set(<<"h">>)}]

\* config: the required values as loaded from the environment.
config(env) ==
  [botToken |-> OrDefault(env.BOT_TOKEN, <<>>),
   apiId    |-> parseInt(OrDefault(env.API_ID, <<"0">>)),
   apiHash  |-> OrDefault(env.API_HASH, <<>>)]

required == <<"botToken", "apiId", "apiHash">>

\* !config[key]: the empty string, 0 and NaN are falsy.
NotConfigured(cfg, key) ==
  IF key = "apiId" THEN Falsy(cfg.apiId) ELSE cfg[key] = <<>>

\* Variant for comparison: only the first name without a value is reported.
validateConfigFirstOnly(cfg) ==
  LET missing == SelectSeq(required, LAMBDA key : NotConfigured(cfg, key))
  IN  [threw |-> missing # <<>>,
       missing |-> IF missing = <<>> THEN <<>> ELSE <<Head(missing)>>]

\* validateConfig: throws when a required key has no value, with a message
\* that joins the names of these keys in the order of required.
validateConfig(cfg) ==
  LET missing == SelectSeq(required, LAMBDA key : NotConfigured(cfg, key))
  IN  [threw |-> missing # <<>>, missing |-> missing]

NoExit == 0 - 1

\* The process before app.start() in environment env.
Launched(env) ==
  [pc |-> "start", env |-> env, steps |-> <<>>, missing |-> <<>>,
   storageConnected |-> FALSE, botLaunched |-> FALSE, isRunning |-> FALSE,
   isShuttingDown |-> FALSE, stopPc |-> "none", exitWith |-> NoExit,
   errorSeen |-> FALSE, exitCode |-> NoExit]

\* The process after app.start() has returned: storage is connected, the bot is
\* launched and the handlers of setupGracefulShutdown are installed.
Started(env) ==
  [Launched(env) EXCEPT !.pc = "running",
                        !.steps = <<"validateConfig", "connect", "launch">>,
                        !.storageConnected = TRUE, !.botLaunched = TRUE]

\* process.exit(code)
Exit(p, code) == [p EXCEPT !.pc = "exited", !.exitCode = code]

\* Application.start, first step: validateConfig(); what it throws reaches the
\* catch of app.start(), which exits with status 1.
StartValidate ==
  /\ proc.pc = "start"
  /\ LET r == validateConfig(config(proc.env))
         p == [proc EXCEPT !.steps = Append(@, "validateConfig")]
     IN  proc' = IF r.threw THEN Exit([p EXCEPT !.missing = r.missing], 1)
                 ELSE [p EXCEPT !.pc = "validated"]
  /\ UNCHANGED <<users, ledger, sends, events, raised, now, reply,
                 sessions, pendingAuth, dialog, answer, clients, userbot>>

\* Application.start, second step: databaseService.connect().
StartConnect ==
  /\ proc.pc = "validated"
  /\ \E connectOk \in BOOLEAN :
       LET p == [proc EXCEPT !.steps = Append(@, "connect")]
       IN  proc' = IF connectOk
                     THEN [p EXCEPT !.pc = "connected", !.storageConnected = TRUE]
                     ELSE Exit(p, 1)
  /\ UNCHANGED <<users, ledger, sends, events, raised, now, reply,
                 sessions, pendingAuth, dialog, answer, clients, userbot>>

\* Application.start, third step: botService.start(), then the cleanup interval
\* and the handlers of setupGracefulShutdown.
StartLaunch ==
  /\ proc.pc = "connected"
  /\ proc' = [proc EXCEPT !.pc = "running", !.steps = Append(@, "launch"),
                          !.botLaunched = TRUE]
  /\ UNCHANGED <<users, ledger, sends, events, raised, now, reply,
                 sessions, pendingAuth, dialog, answer, clients, userbot>>

\* ------------------------------------------------------------ userbot service
\* The clients one run connects at most.
MaxClients == 4

\* TelegramUserbotService after its constructor: isRunning = false and an empty
\* activeUsers map (0 stands for no entry under the key of a user).  connected
\* holds the clients that are connected and have the two event handlers,
\* created counts them, disconnectFailed tells that a disconnect() has thrown,
\* handled is the last update and the number of handler runs it caused.
Constructed ==
  [isRunning |-> FALSE, activeUsers |-> [u \in Users |-> 0], connected |-> {},
   created |-> 0, disconnectFailed |-> FALSE,
   handled |-> [account |-> 0, runs |-> 0]]

\* TelegramAuthService.createAuthenticatedClient returns a client: the user has
\* a stored session with a session string and connect() succeeded.
createAuthenticatedClient(coll, telegramId, connectOk) ==
  /\ \E r \in coll : r.userId = telegramId /\ r.sessionString # <<>>
  /\ connectOk

\* setupEventHandlers(client); this.activeUsers.set(user._id.toString(), client)
\* for the client createAuthenticatedClient connected: a new client with the
\* handlers, and the entry under the user's key is set to it.
Register(sv, u) ==
  LET id == sv.created + 1
  IN  [sv EXCEPT !.created = id,
                 !.connected = @ \cup {[id |-> id, user |-> u]},
                 !.activeUsers[u] = id]

\* The loop of start() over the result of getAllActiveUsers; connects is the set
\* of users whose connect() succeeds.
RECURSIVE StartClients(_, _, _, _)
StartClients(sv, activeUsers, coll, connects) ==
  IF activeUsers = <<>> THEN sv
  ELSE LET user == Head(activeUsers)
           u    == user.telegramId
           next == IF /\ user.sessionString # <<>>
                      /\ createAuthenticatedClient(coll, u, u \in connects)
                     THEN Register(sv, u) ELSE sv
       IN  StartClients(next, Tail(activeUsers), coll, connects)

\* TelegramUserbotService.start: returns when the service is running; throws
\* when the directory read fails; otherwise starts a client for every active
\* user with a session string and sets isRunning.
start(sv, dir, coll, readOk, connects) ==
  IF sv.isRunning \/ ~readOk THEN sv
  ELSE [StartClients(sv, getAllActiveUsers(dir), coll, connects)
          EXCEPT !.isRunning = TRUE]

\* TelegramUserbotService.startUserbotForUser on the service record.
startClientForUser(sv, dir, coll, u, connectOk) ==
  IF dir[u] = NoUser \/ dir[u].sessionString = <<>> THEN sv
  ELSE IF createAuthenticatedClient(coll, u, connectOk) THEN Register(sv, u)
  ELSE sv

\* The keys of the activeUsers map.
ActiveKeys(sv) == {u \in Users : sv.activeUsers[u] # 0}

\* TelegramUserbotService.stop: returns when the service is not running;
\* otherwise disconnects the clients of the activeUsers map (a disconnect that
\* throws is logged and leaves its client connected), clears the map and
\* resets isRunning.
stopService(sv, disconnectOk) ==
  IF ~sv.isRunning THEN sv
  ELSE [sv EXCEPT !.connected = IF disconnectOk
                                  THEN {c \in @ : sv.activeUsers[c.user] # c.id}
                                  ELSE @,
                  !.disconnectFailed = @ \/ (~disconnectOk /\ ActiveKeys(sv) # {}),
                  !.activeUsers = [u \in Users |-> 0],
                  !.isRunning = FALSE]

isUserbotRunning(sv) == sv.isRunning

\* A caller awaits userbotService.start().
StartService ==
  /\ proc.pc = "running" /\ ~proc.isShuttingDown
  /\ userbot.created + Cardinality(Users) <= MaxClients
  /\ \E readOk \in BOOLEAN, connects \in SUBSET Users :
       userbot' = start(userbot, users, sessions, readOk, connects)
  /\ clients' = ActiveKeys(userbot')
  /\ UNCHANGED <<users, ledger, sends, events, raised, now, reply,
                 sessions, pendingAuth, dialog, answer, proc>>

\* A caller awaits userbotService.startUserbotForUser(u).
StartForUser(u) ==
  /\ proc.pc = "running" /\ ~proc.isShuttingDown
  /\ userbot.created < MaxClients
  /\ \E connectOk \in BOOLEAN :
       userbot' = startClientForUser(userbot, users, sessions, u, connectOk)
  /\ clients' = ActiveKeys(userbot')
  /\ UNCHANGED <<users, ledger, sends, events, raised, now, reply,
                 sessions, pendingAuth, dialog, answer, proc>>

\* A caller awaits userbotService.stop().
StopService ==
  /\ proc.pc = "running" /\ ~proc.isShuttingDown
  /\ \E disconnectOk \in BOOLEAN :
       userbot' = stopService(userbot, disconnectOk)
  /\ clients' = ActiveKeys(userbot')
  /\ UNCHANGED <<users, ledger, sends, events, raised, now, reply,
                 sessions, pendingAuth, dialog, answer, proc>>

\* Telegram sends an update for a message in a chat of account u: every
\* connected client of the account runs its new-message handler, and each run
\* is one pass of the message through handleNewMessage.
ReceiveUpdate(u) ==
  /\ proc.pc = "running"
  /\ userbot' = [userbot EXCEPT !.handled =
                   [account |-> u,
                    runs    |-> Cardinality({c \in userbot.connected : c.user = u})]]
  /\ UNCHANGED <<users, ledger, sends, events, raised, now, reply,
                 sessions, pendingAuth, dialog, answer, clients, proc>>

\* The events setupGracefulShutdown installs handlers for, and the status the
\* handler of each exits with.
ProcessEvents == {"SIGINT", "SIGTERM", "uncaughtException", "unhandledRejection"}
ExitStatus(event) == IF event \in {"SIGINT", "SIGTERM"} THEN 0 ELSE 1

\* Application.stop up to its first await that waits for input or output: it
\* returns at once when a shutdown has begun; otherwise it stops the userbot
\* service if that is running, stops the bot and awaits the disconnect.
stop(p) ==
  IF p.isShuttingDown THEN p
  ELSE [p EXCEPT !.isShuttingDown = TRUE, !.isRunning = FALSE,
                 !.botLaunched = FALSE, !.stopPc = "disconnect"]

\* A handler of setupGracefulShutdown runs: it calls stop(), which stops the
\* userbot service when no shutdown has begun and isUserbotRunning() holds, and
\* exits when the promise of that call resolves, which is at once when stop()
\* returned at once.
Handle(event) ==
  /\ proc.pc = "running"
  /\ LET seen == [proc EXCEPT !.errorSeen = @ \/ ExitStatus(event) = 1]
     IN  proc' = IF seen.isShuttingDown
                   THEN Exit(stop(seen), ExitStatus(event))
                   ELSE [stop(seen) EXCEPT !.exitWith = ExitStatus(event)]
  /\ \E disconnectOk \in BOOLEAN :
       userbot' = IF ~proc.isShuttingDown /\ isUserbotRunning(userbot)
                    THEN stopService(userbot, disconnectOk)
                    ELSE userbot
  /\ clients' = ActiveKeys(userbot')
  /\ UNCHANGED <<users, ledger, sends, events, raised, now, reply,
                 sessions, pendingAuth, dialog, answer>>

\* databaseService.disconnect() of the running stop() settles; an error is
\* caught by stop(), which returns, and the handler that called it exits.
Disconnected ==
  /\ proc.pc = "running" /\ proc.stopPc = "disconnect"
  /\ \E disconnectOk \in BOOLEAN :
       proc' = Exit([proc EXCEPT !.stopPc = "returned",
                                 !.storageConnected = ~disconnectOk],
                    proc.exitWith)
  /\ UNCHANGED <<users, ledger, sends, events, raised, now, reply,
                 sessions, pendingAuth, dialog, answer, clients, userbot>>

\* The environment the other runs are started in.
Environment == [BOT_TOKEN |-> Set(<<"t">>), API_ID |-> Set(<<"1", "2">>),
                API_HASH |-> Set(<<"h">>)]

\* The command surface after construction: empty maps, nothing said.
InitSurface ==
  /\ sessions = {}
  /\ pendingAuth = [u \in Users |-> NoPending]
  /\ dialog = [u \in Users |-> [stage |-> "idle", phoneNumber |-> <<>>]]
  /\ answer = NoAnswer
  /\ clients = {}
  /\ userbot = Constructed
  /\ proc = Started(Environment)

\* The directory at start: user 1 has keywords, user 2 may not have a record yet.
InitUsers ==
  {[u \in Users |-> IF u = 1 THEN r1 ELSE r2] :
     r1 \in {UserRecord(1, TRUE, kws, limit, groups) :
               kws \in KeywordLists, limit \in LimitChoices, groups \in GroupLists},
     r2 \in {NoUser, UserRecord(2, TRUE, <<K1>>, DefaultCharacterLimit, <<>>)}}

Init ==
  /\ users \in InitUsers
  /\ ledger = {}
  /\ sends = {}
  /\ events = [e \in EventIds |-> IdleEvent]
  /\ raised = {}
  /\ now = 0
  /\ reply = NoReply
  /\ InitSurface

Next ==
  \/ \E e \in EventIds : Deliver(e)
  \/ \E e \in EventIds : Search(e)
  \/ \E e \in EventIds : ReadDirectory(e)
  \/ \E e \in EventIds : WriteLedger(e)
  \/ \E e \in EventIds : SendNotification(e)

\* The matching pipeline over a directory that no command changes.
Spec == Init /\ [][Next]_vars

\* The user who sends the commands.
Sender == 1

\* The directory the login / logout runs start with: user 1 has two keywords and
\* no notification group, user 2 has not logged in yet.
InitAuth ==
  /\ users = [u \in Users |->
               IF u = 1
                 THEN UserRecord(1, TRUE, <<K1, K2>>, DefaultCharacterLimit, <<>>)
                 ELSE NoUser]
  /\ ledger = {}
  /\ sends = {}
  /\ events = [e \in EventIds |-> IdleEvent]
  /\ raised = {}
  /\ now = 0
  /\ reply = NoReply
  /\ InitSurface

NextAuth ==
  \/ \E e \in EventIds : Deliver(e)
  \/ \E e \in EventIds : ReadDirectory(e)
  \/ \E e \in EventIds : WriteLedger(e)
  \/ \E e \in EventIds : SendNotification(e)
  \/ Logout(Sender)
  \/ Authenticate(Sender)

\* The matching pipeline while users log out and log in.
SpecAuth == InitAuth /\ [][NextAuth]_vars

\* A day passes.  What the last ledger call returned is kept until then.
Tick ==
  /\ now < MaxNow
  /\ now' = now + 1
  /\ reply' = NoReply
  /\ UNCHANGED <<users, ledger, sends, events, raised, surface>>

\* The next _id of a document created outside an event handler.
NextId ==
  LET used == {m._id[2] : m \in {x \in ledger : x._id[1] = 0}}
  IN  <<0, IF used = {} THEN 1 ELSE 1 + CHOOSE n \in used : \A x \in used : x <= n>>

\* One pass of the loop body of checkKeywordMatches: createMatch for a keyword of
\* an active user that the message matched.
CreateMatch(u, text) ==
  /\ Cardinality(ledger) < MaxEntries
  /\ users[u] # NoUser
  /\ \E chat \in Chats, storageOk \in {TRUE, FALSE} :
       LET ctx == MessageContext(chat, 1, text, Undefined, Undefined)
           kws == matchedKeywords(users[u], ctx)
       IN  \E i \in 1..Len(kws) :
             LET r == createMatch(ledger, UserbotMatch(users[u], kws[i], ctx),
                                  NextId, storageOk)
             IN  /\ ledger' = r.ledger
                 /\ reply' = [op |-> "createMatch", ok |-> r.ok, value |-> r.doc]
  /\ UNCHANGED <<users, sends, events, raised, now, surface>>

\* cleanupOldMatches / deleteOldMatches(olderThanDays).
DeleteOldMatches(days) ==
  /\ \E storageOk \in {TRUE, FALSE} :
       LET r == deleteOldMatches(ledger, days, storageOk)
       IN  /\ ledger' = r.ledger
           /\ reply' = [op |-> "deleteOldMatches", ok |-> r.ok, days |-> days,
                        value |-> r.value]
  /\ UNCHANGED <<users, sends, events, raised, now, surface>>

\* The age at which the cleanup interval prunes: cleanupOldMatches(30).
RetentionDays == 30

\* Variant for comparison: the cleanup prunes the entries at the cutoff too.
cleanupOldMatchesThroughCutoff(coll, olderThanDays, storageOk) ==
  LET r == deleteOldMatchesThroughCutoff(coll, olderThanDays, storageOk)
  IN  [ledger |-> r.ledger, failed |-> ~r.ok, value |-> IF r.ok THEN r.value ELSE 0]

\* KeywordSearchService.cleanupOldMatches: the count deleteOldMatches returns;
\* an error it throws is logged and 0 is returned.
cleanupOldMatches(coll, olderThanDays, storageOk) ==
  LET r == deleteOldMatches(coll, olderThanDays, storageOk)
  IN  [ledger |-> r.ledger, failed |-> ~r.ok, value |-> IF r.ok THEN r.value ELSE 0]

\* The callback of setupCleanupInterval runs: cleanupOldMatches(30) inside a
\* try/catch that logs.
CleanupRun ==
  /\ \E storageOk \in BOOLEAN :
       LET r == cleanupOldMatches(ledger, RetentionDays, storageOk)
       IN  /\ ledger' = r.ledger
           /\ reply' = [op |-> "cleanup", ok |-> ~r.failed, value |-> r.value]
  /\ UNCHANGED <<users, sends, events, raised, now, surface>>

\* An entry written age days before the run starts.
OldEntry(age) ==
  [_id |-> <<0, age>>, timestamp |-> 0 - age]
    @@ UserbotMatch(UserRecord(1, TRUE, <<K1>>, DefaultCharacterLimit, <<>>), K1,
                    MessageContext(7, 1, T1, Undefined, Undefined))

\* The ledger the cleanup runs start with: entries one day short of the
\* retention age, at it and one day past it.
InitCleanup ==
  /\ users = [u \in Users |->
               IF u = 1
                 THEN UserRecord(1, TRUE, <<K1, K2>>, DefaultCharacterLimit, <<>>)
                 ELSE NoUser]
  /\ ledger = {OldEntry(RetentionDays - 1), OldEntry(RetentionDays),
               OldEntry(RetentionDays + 1)}
  /\ sends = {}
  /\ events = [e \in EventIds |-> IdleEvent]
  /\ raised = {}
  /\ now = 0
  /\ reply = NoReply
  /\ InitSurface

NextCleanup ==
  \/ \E e \in EventIds : Deliver(e)
  \/ \E e \in EventIds : ReadDirectory(e)
  \/ \E e \in EventIds : WriteLedger(e)
  \/ \E e \in EventIds : SendNotification(e)
  \/ Tick
  \/ CleanupRun

\* The matching pipeline while days pass and the cleanup interval fires.
SpecCleanup == InitCleanup /\ [][NextCleanup]_vars

\* getMatchesByUser(userId, limit)
GetMatchesByUser(userId, limit) ==
  /\ \E q \in getMatchesByUser(ledger, userId, limit) :
       reply' = [op |-> "getMatchesByUser", ok |-> TRUE, userId |-> userId,
                 limit |-> limit, value |-> q]
  /\ UNCHANGED <<users, ledger, sends, events, raised, now, surface>>

\* getMatchesByKeyword(keyword, limit)
GetMatchesByKeyword(keyword, limit) ==
  /\ \E q \in getMatchesByKeyword(ledger, keyword, limit) :
       reply' = [op |-> "getMatchesByKeyword", ok |-> TRUE, keyword |-> keyword,
                 limit |-> limit, value |-> q]
  /\ UNCHANGED <<users, ledger, sends, events, raised, now, surface>>

\* getRecentMatches(limit)
GetRecentMatches(limit) ==
  /\ \E q \in getRecentMatches(ledger, limit) :
       reply' = [op |-> "getRecentMatches", ok |-> TRUE, limit |-> limit,
                 value |-> q]
  /\ UNCHANGED <<users, ledger, sends, events, raised, now, surface>>

\* getMatchStats(userId, days)
GetMatchStats(userId, days) ==
  /\ \E storageOk \in {TRUE, FALSE} :
       \E r \in getMatchStats(ledger, userId, days, storageOk) :
         reply' = [op |-> "getMatchStats", ok |-> storageOk, userId |-> userId,
                   days |-> days, scanned |-> r.scanned, value |-> r.value]
  /\ UNCHANGED <<users, ledger, sends, events, raised, now, surface>>

\* The arguments the ledger methods are called with.
DayChoices == {1, 2}
QueryLimits == {1, 2}
LedgerTexts == {T1, T3}

\* The directory of the ledger runs: user 1 also has the keyword "1".
InitLedger ==
  /\ users = [u \in Users |->
               IF u = 1
                 THEN UserRecord(1, TRUE, <<K1, K2, K4>>, DefaultCharacterLimit, <<>>)
                 ELSE UserRecord(2, TRUE, <<K1>>, DefaultCharacterLimit, <<>>)]
  /\ ledger = {}
  /\ sends = {}
  /\ events = [e \in EventIds |-> IdleEvent]
  /\ raised = {}
  /\ now = 0
  /\ reply = NoReply
  /\ InitSurface

NextLedger ==
  \/ Tick
  \/ \E u \in Users, text \in LedgerTexts : CreateMatch(u, text)
  \/ \E days \in DayChoices : DeleteOldMatches(days)
  \/ \E u \in Users, limit \in QueryLimits : GetMatchesByUser(u, limit)
  \/ \E k \in {K1, K2, K4}, limit \in QueryLimits : GetMatchesByKeyword(k, limit)
  \/ \E limit \in QueryLimits : GetRecentMatches(limit)
  \/ \E u \in Users \cup {NoUserId}, days \in DayChoices : GetMatchStats(u, days)

\* The methods of KeywordMatchModel called on a ledger of matches.
SpecLedger == InitLedger /\ [][NextLedger]_vars

NextRetention ==
  \/ \E e \in EventIds : Deliver(e)
  \/ \E e \in EventIds : ReadDirectory(e)
  \/ \E e \in EventIds : WriteLedger(e)
  \/ \E e \in EventIds : SendNotification(e)
  \/ Tick
  \/ \E days \in DayChoices : DeleteOldMatches(days)

\* The matching pipeline while days pass and the cleanup interval fires.
SpecRetention == InitAuth /\ [][NextRetention]_vars

\* The directory of the ingestion runs: two users who share the keyword "a".
InitIngest ==
  /\ users = [u \in Users |->
               IF u = 1
                 THEN UserRecord(1, TRUE, <<K1, K2>>, DefaultCharacterLimit, <<>>)
                 ELSE UserRecord(2, TRUE, <<K1>>, DefaultCharacterLimit, <<101>>)]
  /\ ledger = {}
  /\ sends = {}
  /\ events = [e \in EventIds |-> IdleEvent]
  /\ raised = {}
  /\ now = 0
  /\ reply = NoReply
  /\ InitSurface

NextIngest ==
  \/ \E e \in EventIds : Deliver(e)
  \/ \E e \in EventIds : DeliverEdit(e)
  \/ \E e \in EventIds : DeliverDefective(e)
  \/ \E e \in EventIds : ReadDirectory(e)
  \/ \E e \in EventIds : WriteLedger(e)
  \/ \E e \in EventIds : SendNotification(e)

\* The userbot fed with new, edited and incomplete updates.
SpecIngest == InitIngest /\ [][NextIngest]_vars

\* The directory the command runs start with: user 1 is logged in and has set
\* nothing yet, user 2 has no record.
InitCommands ==
  /\ users = [u \in Users |->
               IF u = 1
                 THEN UserRecord(1, TRUE, <<>>, DefaultCharacterLimit, <<>>)
                 ELSE NoUser]
  /\ ledger = {}
  /\ sends = {}
  /\ events = [e \in EventIds |-> IdleEvent]
  /\ raised = {}
  /\ now = 0
  /\ reply = NoReply
  /\ InitSurface

NextKeywords ==
  \/ Tick
  \/ \E u \in Users, rest \in KeywordArgs : AddKeywordCmd(u, rest)
  \/ \E u \in Users, rest \in KeywordArgs : RemoveKeywordCmd(u, rest)

\* Users add and remove keywords.
SpecKeywords == InitCommands /\ [][NextKeywords]_vars

\* What users send the bot as plain text: a phone number in international
\* format, one without the plus sign, the verification code and the password.
LoginTexts == {<<"+", "1", "2">>, <<"1", "2">>, VerificationCode, Password}

NextSettings ==
  \/ Tick
  \/ \E rest \in LimitArgs : SetLimitCmd(Sender, rest)
  \/ \E rest \in GroupArgs : SetNotificationCmd(Sender, rest)
  \/ \E rest \in GroupArgs : AddGroupCmd(Sender, rest)
  \/ \E rest \in GroupsArgs : SetGroupsCmd(Sender, rest)
  \/ Login(Sender)
  \/ \E text \in LoginTexts : TextMessage(Sender, text)

\* A logged-in user sends settings commands and the messages of the login
\* script.
SpecSettings == InitCommands /\ [][NextSettings]_vars

NextLimit ==
  \/ \E u \in Users, rest \in LimitArgs : SetLimitCmd(u, rest)
  \/ \E u \in Users, n \in LimitValues : SetCharacterLimit(u, n)
  \/ \E u \in Users : Authenticate(u)

\* Users are created and character limits are set, by command and by call.
SpecLimit == InitCommands /\ [][NextLimit]_vars

NextLogin ==
  \/ Tick
  \/ \E u \in Users : Login(u)
  \/ \E u \in Users, text \in LoginTexts : TextMessage(u, text)

\* Users send /login and the messages of the login script.
SpecLogin == InitCommands /\ [][NextLogin]_vars

InitProcess ==
  /\ users = [u \in Users |-> NoUser]
  /\ ledger = {}
  /\ sends = {}
  /\ events = [e \in EventIds |-> IdleEvent]
  /\ raised = {}
  /\ now = 0
  /\ reply = NoReply
  /\ sessions = {}
  /\ pendingAuth = [u \in Users |-> NoPending]
  /\ dialog = [u \in Users |-> NoDialog]
  /\ answer = NoAnswer
  /\ clients = {}
  /\ userbot = Constructed
  /\ proc \in {Launched(env) : env \in Environments}

NextProcess ==
  \/ StartValidate
  \/ StartConnect
  \/ StartLaunch
  \/ \E event \in ProcessEvents : Handle(event)
  \/ Disconnected

\* The process from app.start() to process.exit().
SpecProcess == InitProcess /\ [][NextProcess]_vars

NextGroups ==
  \/ Tick
  \/ \E rest \in GroupArgs : SetNotificationCmd(Sender, rest)
  \/ \E rest \in GroupArgs : AddGroupCmd(Sender, rest)
  \/ \E rest \in GroupArgs : RemoveGroupCmd(Sender, rest)
  \/ \E rest \in GroupsArgs : SetGroupsCmd(Sender, rest)

\* A logged-in user edits the notification destinations.
SpecGroups == InitCommands /\ [][NextGroups]_vars

\* One well-formed argument of each settings command, and none at all.
GuardKeywordArgs == {<<>>, <<" ", "a">>}
GuardLimitArgs == {<<>>, <<" ", "5">>}
GuardGroupArgs == {<<>>, <<" ", "7">>}
GuardGroupsArgs == {<<>>, <<" ", "7", ",", "8">>}

NextGuard ==
  \/ \E u \in Users : Logout(u)
  \/ \E u \in Users, rest \in GuardKeywordArgs : AddKeywordCmd(u, rest)
  \/ \E u \in Users, rest \in GuardKeywordArgs : RemoveKeywordCmd(u, rest)
  \/ \E u \in Users, rest \in GuardLimitArgs : SetLimitCmd(u, rest)
  \/ \E u \in Users, rest \in GuardGroupArgs : SetNotificationCmd(u, rest)
  \/ \E u \in Users, rest \in GuardGroupArgs : AddGroupCmd(u, rest)
  \/ \E u \in Users, rest \in GuardGroupArgs : RemoveGroupCmd(u, rest)
  \/ \E u \in Users, rest \in GuardGroupsArgs : SetGroupsCmd(u, rest)

\* Settings commands of a user who logs out and of a user without a record.
SpecGuard == InitCommands /\ [][NextGuard]_vars

\* What the user sends while messages arrive: a second keyword, the removal of
\* the first, the smallest limit and two destinations.
LiveAddArgs == {<<" ", "B">>}
LiveRemoveArgs == {<<" ", "a">>}
LiveLimitArgs == {<<" ", "1">>}
LiveGroupsArgs == {<<" ", "7", ",", "8">>}

\* The directory of the live runs: user 1 watches "a" with the default limit and
\* no destination.
InitLive ==
  /\ users = [u \in Users |->
               IF u = 1
                 THEN UserRecord(1, TRUE, <<K1>>, DefaultCharacterLimit, <<>>)
                 ELSE NoUser]
  /\ ledger = {}
  /\ sends = {}
  /\ events = [e \in EventIds |-> IdleEvent]
  /\ raised = {}
  /\ now = 0
  /\ reply = NoReply
  /\ InitSurface

NextLive ==
  \/ \E e \in EventIds : Deliver(e)
  \/ \E e \in EventIds : ReadDirectory(e)
  \/ \E e \in EventIds : WriteLedger(e)
  \/ \E e \in EventIds : SendNotification(e)
  \/ \E rest \in LiveAddArgs : AddKeywordCmd(Sender, rest)
  \/ \E rest \in LiveRemoveArgs : RemoveKeywordCmd(Sender, rest)
  \/ \E rest \in LiveLimitArgs : SetLimitCmd(Sender, rest)
  \/ \E rest \in LiveGroupsArgs : SetGroupsCmd(Sender, rest)

\* The matching pipeline while a user changes keywords, limit and destinations.
SpecLive == InitLive /\ [][NextLive]_vars

\* Both users are logged in and have a stored session; the service has been
\* constructed and the process is running.
InitUserbot ==
  /\ users = [u \in Users |->
               UserRecord(u, TRUE, <<K1>>, DefaultCharacterLimit, <<>>)]
  /\ ledger = {}
  /\ sends = {}
  /\ events = [e \in EventIds |-> IdleEvent]
  /\ raised = {}
  /\ now = 0
  /\ reply = NoReply
  /\ sessions = {[createdAt |-> 0, updatedAt |-> 0]
                   @@ SessionData(u, PhoneOf(u), Session) : u \in Users}
  /\ pendingAuth = [u \in Users |-> NoPending]
  /\ dialog = [u \in Users |-> NoDialog]
  /\ answer = NoAnswer
  /\ clients = {}
  /\ userbot = Constructed
  /\ proc = Started(Environment)

NextUserbot ==
  \/ StartService
  \/ \E u \in Users : StartForUser(u)
  \/ StopService
  \/ \E u \in Users : ReceiveUpdate(u)
  \/ \E event \in ProcessEvents : Handle(event)
  \/ Disconnected

\* Calls of start, startUserbotForUser and stop on the userbot service of a
\* running process, updates from Telegram, and the shutdown of the process.
SpecUserbot == InitUserbot /\ [][NextUserbot]_vars

NextSession ==
  \/ Tick
  \/ \E u \in Users, sessionString \in SessionStrings : SaveAuthSession(u, sessionString)
  \/ \E u \in Users : Authenticate(u)
  \/ \E u \in Users : Logout(u)

\* Logins that succeed, logouts and saved sessions.
SpecSession == InitCommands /\ [][NextSession]_vars

\* --------------------------------------------------------------- properties
Range(q) == {q[i] : i \in 1..Len(q)}

\* Ledger entries and send attempts of event e for user u and keyword k.
EntriesOf(e, u, k) ==
  {m \in ledger : m._id[1] = e /\ m.userId = u /\ m.keyword = k}

SendsOf(e, u, k) ==
  {s \in sends : s.event = e /\ s.userId = u /\ s.keyword = k}

\* Everything event e produced for user u: entries, sends, returned matches.
ProducedFor(e, u) ==
  {m \in ledger : m._id[1] = e /\ m.userId = u}
  \cup {s \in sends : s.event = e /\ s.userId = u}
  \cup {m \in Range(events[e].matches) : m.userId = u}

\* Everything event e wrote or sent.
Effects(e) ==
  {m \in ledger : m._id[1] = e} \cup {s \in sends : s.event = e}

FinishedUserbot(e) == events[e].pc = "done" /\ events[e].via = "userbot"

ReadDone(e) == events[e].seen # NoDirectory

\* User u had a record that was authenticated and active when e read the directory.
ActiveAtRead(e, u) ==
  /\ ReadDone(e)
  /\ events[e].seen[u] # NoUser
  /\ events[e].seen[u].isAuthenticated
  /\ events[e].seen[u].isActive

\* A send was attempted to every destination of user record d, in list order.
Notified(e, d, k) ==
  LET dests == IF Len(d.notificationGroups) > 0 THEN d.notificationGroups
               ELSE <<d.telegramId>>
  IN  \A j \in 1..Len(dests) :
        \E s \in SendsOf(e, d.telegramId, k) : s.idx = j /\ s.dest = dests[j]

\* C1: a processed message whose directory read and ledger writes all succeeded
\* has, for every authenticated active user U and keyword K of U with
\* M.length <= U.characterLimit and lowercase(K) a substring of lowercase(M.text),
\* one ledger entry for (U, K) and a send to each of U's destinations.
C1_SubstringMatchRecorded ==
  \A e \in EventIds :
    (FinishedUserbot(e) /\ ReadDone(e) /\ events[e].writeFailed = {}) =>
      \A u \in Users :
        ActiveAtRead(e, u) =>
          LET d == events[e].seen[u]
              M == events[e].ctx
          IN  \A i \in 1..Len(d.keywords) :
                ( /\ M.messageLength <= d.characterLimit
                  /\ Includes(ToLowerCase(M.text), ToLowerCase(d.keywords[i])) )
                => /\ Cardinality(EntriesOf(e, u, d.keywords[i])) = 1
                   /\ Notified(e, d, d.keywords[i])

\* C1 witness: a finished event recorded the upper-case keyword "B" against a
\* lower-case text and alerted both groups.
C1_Witness ==
  \E e \in EventIds :
    /\ FinishedUserbot(e)
    /\ \E m \in ledger : m._id[1] = e /\ m.keyword = K2 /\ m.message = T2
    /\ \E s \in sends : s.event = e /\ s.keyword = K2 /\ s.dest = 102

\* C2: an event whose message is longer than U's character limit (as the event's
\* directory read returned it) produces nothing for U: no ledger entry, no send
\* and no match returned by searchKeywordsInMessage.
C2_OverLimitProducesNothing ==
  \A e \in EventIds : \A u \in Users :
    ( /\ ReadDone(e)
      /\ events[e].seen[u] # NoUser
      /\ events[e].ctx.messageLength > events[e].seen[u].characterLimit )
    => ProducedFor(e, u) = {}

\* Event e is finished, was over the limit of user 1, and one of user 1's keywords
\* matched its text.
OverLimitCase(e, via) ==
  /\ events[e].pc = "done" /\ events[e].via = via
  /\ ActiveAtRead(e, 1)
  /\ events[e].ctx.messageLength > events[e].seen[1].characterLimit
  /\ \E k \in Range(events[e].seen[1].keywords) :
       Includes(ToLowerCase(events[e].ctx.text), ToLowerCase(k))

\* C2 witness: both entry points have finished an over-limit message.
C2_Witness ==
  /\ \E e \in EventIds : OverLimitCase(e, "userbot")
  /\ \E e \in EventIds : OverLimitCase(e, "search")

\* Pair (u, k) matches the message of e as checkKeywordMatches decides it.
PairMatches(e, u, k) ==
  /\ events[e].ctx.messageLength <= events[e].seen[u].characterLimit
  /\ Includes(ToLowerCase(events[e].ctx.text), ToLowerCase(k))

\* C3: a processed event has exactly one ledger entry for each (user, keyword)
\* pair that matches its message, unless storage refused the write of that very
\* pair, and no entry for a pair that does not match.
C3_OneEntryPerMatchingPair ==
  \A e \in EventIds :
    (FinishedUserbot(e) /\ ReadDone(e)) =>
      \A u \in Users :
        ActiveAtRead(e, u) =>
          \A k \in Range(events[e].seen[u].keywords) :
            /\ (PairMatches(e, u, k) /\ <<u, k>> \notin events[e].writeFailed)
                 => Cardinality(EntriesOf(e, u, k)) = 1
            /\ ~PairMatches(e, u, k) => EntriesOf(e, u, k) = {}

\* C4: when the ledger write of one user fails, every other active user whose
\* keywords match the message still gets the ledger entries and alerts.
C4_FailureIsolatedPerUser ==
  \A e \in EventIds :
    (FinishedUserbot(e) /\ ReadDone(e) /\ events[e].writeFailed # {}) =>
      \A v \in Users :
        (ActiveAtRead(e, v) /\ \A p \in events[e].writeFailed : p[1] # v) =>
          \A k \in Range(events[e].seen[v].keywords) :
            PairMatches(e, v, k) =>
              /\ EntriesOf(e, v, k) # {}
              /\ Notified(e, events[e].seen[v], k)

\* C5: a finished dispatch for a user whose destination list [d1..dn] is not
\* empty has attempted exactly one send to every di, in list order, whether or
\* not earlier sends failed.
C5_EveryDestinationAttemptedOnce ==
  \A e \in EventIds :
    FinishedUserbot(e) =>
      \A m \in {x \in ledger : x._id[1] = e} :
        LET groups == events[e].seen[m.userId].notificationGroups
        IN  Len(groups) >= 1 =>
              \A j \in 1..Len(groups) :
                LET attempts == {s \in SendsOf(e, m.userId, m.keyword) : s.idx = j}
                IN  /\ Cardinality(attempts) = 1
                    /\ \A s \in attempts : s.dest = groups[j]

\* C5 witness: the send to 101 failed and the send to 102 was attempted.
C5_Witness ==
  \E e \in EventIds :
    /\ FinishedUserbot(e)
    /\ \E s \in sends : s.event = e /\ s.dest = 101 /\ ~s.ok
    /\ \E s \in sends : s.event = e /\ s.dest = 102 /\ s.idx = 2

\* C6: a step in which a send fails leaves the ledger and the user directory as
\* they were, with the entry of the match present exactly once.
C6_FailedSendKeepsPersistedState ==
  [][\A s \in sends' \ sends :
       ~s.ok => /\ ledger' = ledger
                /\ users' = users
                /\ Cardinality(EntriesOf(s.event, s.userId, s.keyword)) = 1]_vars

\* C6 witness: a send has failed and the entry of its match is in the ledger.
C6_Witness ==
  \E s \in sends : ~s.ok /\ EntriesOf(s.event, s.userId, s.keyword) # {}

\* C7: no exception leaves an event handler or the dispatcher, whatever failed,
\* and a handler that met a failure has returned.
C7_HandlersNeverRaise ==
  /\ raised = {}
  /\ \A e \in EventIds :
       (events[e].readFailed \/ events[e].writeFailed # {}) => events[e].pc = "done"

\* C7 witness: the first event met a failed ledger write and the event delivered
\* after it was processed to the end, with its match recorded.
C7_Witness ==
  /\ events[1].writeFailed # {}
  /\ FinishedUserbot(2)
  /\ \E m \in ledger : m._id[1] = 2

\* C8: of two events of one chat, the earlier delivered one does all its ledger
\* writes and sends before the later one does any.
C8_SameChatEventsInOrder ==
  [][\A e1, e2 \in EventIds :
       ( /\ e1 < e2
         /\ events[e1].via = "userbot" /\ events[e2].via = "userbot"
         /\ events[e1].ctx.chatId = events[e2].ctx.chatId
         /\ Effects(e1)' # Effects(e1) )
       => Effects(e2) = {}]_vars

\* C9: nothing is produced for a user whose record was missing, not authenticated
\* or not active when the event read the directory, and nothing for a user that
\* has been logged out since before the event started.
C9_OnlyAuthenticatedActiveUsers ==
  \A e \in EventIds : \A u \in Users :
    ProducedFor(e, u) # {} => (ActiveAtRead(e, u) /\ u \notin events[e].stale)

\* C9 witness: user 1 was logged out when an event with a matching text started,
\* and the event finished after reading the directory.
C9_Witness ==
  \E e \in EventIds :
    /\ FinishedUserbot(e) /\ ReadDone(e)
    /\ 1 \in events[e].stale
    /\ events[e].ctx.messageLength <= users[1].characterLimit
    /\ \E k \in Range(users[1].keywords) :
         Includes(ToLowerCase(events[e].ctx.text), ToLowerCase(k))

\* Every whitespace-separated token of keyword k occurs in the lowercased text.
AllTokensPresent(text, k) ==
  LET tokens == SplitWhitespace(Trim(ToLowerCase(k)))
  IN  /\ Len(tokens) > 1
      /\ \A i \in 1..Len(tokens) : Includes(ToLowerCase(text), tokens[i])

\* C10: a processed message within the limit of an active user is recorded and
\* notified for every multi-token keyword all of whose tokens occur in it.
C10_CompoundKeywordRecorded ==
  \A e \in EventIds :
    (FinishedUserbot(e) /\ ReadDone(e) /\ events[e].writeFailed = {}) =>
      \A u \in Users :
        ActiveAtRead(e, u) =>
          \A k \in Range(events[e].seen[u].keywords) :
            ( /\ events[e].ctx.messageLength <= events[e].seen[u].characterLimit
              /\ AllTokensPresent(events[e].ctx.text, k) )
            => /\ EntriesOf(e, u, k) # {}
               /\ Notified(e, events[e].seen[u], k)

\* What a scan of the message of e over user record d alone records: the keywords
\* its filter selects whose document the ledger accepts.
RecordedAlone(e, d) ==
  LET ev == events[e]
  IN  IF ev.via = "userbot"
        THEN {k \in Range(matchedKeywords(d, ev.ctx)) :
                ValidMatch(UserbotMatch(d, k, ev.ctx))}
        ELSE {k \in Range(searchedKeywords(d, ev.ctx)) :
                ValidMatch(SearchMatch(d, k, ev.ctx))}

\* C11: what a finished event produced for user U is determined by the message
\* and U's own record: unless one of U's own ledger writes failed, U's entries
\* and alerts are those of a scan over U alone, whatever the other users'
\* records are and whichever of their writes and sends failed.
C11_TenantsIndependent ==
  \A e \in EventIds : \A u \in Users :
    ( /\ events[e].pc = "done"
      /\ ActiveAtRead(e, u)
      /\ \A p \in events[e].writeFailed : p[1] # u )
    => LET d == events[e].seen[u]
       IN  /\ {m.keyword : m \in {x \in ledger : x._id[1] = e /\ x.userId = u}}
                = RecordedAlone(e, d)
           /\ \A k \in RecordedAlone(e, d) :
                events[e].via = "userbot" => Notified(e, d, k)

\* C12: an alert for a user without notification groups is sent exactly once, to
\* the user's own identifier; an alert for a user with groups is sent to listed
\* groups only.
C12_FallbackToOwnChat ==
  /\ \A s \in sends :
       LET d == events[s.event].seen[s.userId]
       IN  IF d.notificationGroups = <<>>
             THEN s.dest = d.telegramId /\ s.idx = 1
             ELSE s.dest \in Range(d.notificationGroups)
  /\ \A e \in EventIds :
       FinishedUserbot(e) =>
         \A m \in {x \in ledger : x._id[1] = e} :
           events[e].seen[m.userId].notificationGroups = <<>> =>
             Cardinality(SendsOf(e, m.userId, m.keyword)) = 1

\* C12 witness: one finished event alerted user 2, who has no group, directly and
\* alerted the groups of user 1.
C12_Witness ==
  \E e \in EventIds :
    /\ FinishedUserbot(e)
    /\ \E s \in sends : s.event = e /\ s.userId = 2 /\ s.dest = 2
    /\ \E s \in sends : s.event = e /\ s.userId = 1 /\ s.dest = 102

\* The update of e lacks a chat id, a message id or a sender id, or its body is
\* absent or not a string.
LacksRequiredField(e) ==
  /\ events[e].raw.className # "none"
  /\ \/ events[e].raw.missing \cap {"chatId", "id", "senderId", "message"} # {}
     \/ ~events[e].raw.isString

\* C13: an update that lacks a required field is dropped: its handler has
\* returned without a directory read, it has no ledger entry and no send, and
\* nothing was raised.
C13_IncompleteEventsDropped ==
  \A e \in EventIds :
    LacksRequiredField(e) =>
      /\ events[e].pc = "done"
      /\ ~ReadDone(e) /\ ~events[e].readFailed
      /\ Effects(e) = {}
      /\ raised = {}

\* C13 witness: an update without sender id was dropped and the event after it
\* was processed and recorded.
C13_Witness ==
  /\ LacksRequiredField(1) /\ "senderId" \in events[1].raw.missing
  /\ FinishedUserbot(2) /\ Effects(2) # {}

\* The ledger entries of event e without the fields the store assigns (_id,
\* timestamp), and the alerts of e without their outcome.
EntryFields(e) ==
  {[userId |-> m.userId, keyword |-> m.keyword, message |-> m.message,
    chatId |-> m.chatId, messageId |-> m.messageId, chatTitle |-> m.chatTitle,
    senderName |-> m.senderName, messageLength |-> m.messageLength] :
     m \in {x \in ledger : x._id[1] = e}}

AlertFields(e) ==
  {<<s.userId, s.keyword, s.dest, s.idx, s.chat, s.from>> :
     s \in {x \in sends : x.event = e}}

\* Event e has returned and neither its directory read nor a ledger write failed.
ProcessedCleanly(e) ==
  /\ events[e].pc = "done"
  /\ ~events[e].readFailed /\ events[e].writeFailed = {}

SamePayload(e1, e2) ==
  /\ events[e1].raw.chatId = events[e2].raw.chatId
  /\ events[e1].raw.id = events[e2].raw.id
  /\ events[e1].raw.senderId = events[e2].raw.senderId
  /\ events[e1].raw.message = events[e2].raw.message
  /\ events[e1].raw.missing = events[e2].raw.missing
  /\ events[e1].raw.isString = events[e2].raw.isString

\* C14: a new-message event and an edited-message event with the same payload,
\* processed against the same directory without a failed read or write, have the
\* same ledger entries (up to _id and timestamp) and the same alerts; and an
\* edit, also of a message that matched before, has an entry and the alerts of
\* its own for every matching pair.
C14_EditProcessedLikeNew ==
  /\ \A e1, e2 \in EventIds :
       ( /\ events[e1].raw.className = UpdateNewMessage
         /\ events[e2].raw.className = UpdateEditMessage
         /\ SamePayload(e1, e2)
         /\ ProcessedCleanly(e1) /\ ProcessedCleanly(e2) )
       => /\ EntryFields(e1) = EntryFields(e2)
          /\ AlertFields(e1) = AlertFields(e2)
  /\ \A e \in EventIds :
       ( /\ events[e].raw.className = UpdateEditMessage
         /\ ~LacksRequiredField(e)
         /\ ProcessedCleanly(e) )
       => \A u \in Users :
            (users[u] # NoUser /\ users[u].isAuthenticated /\ users[u].isActive) =>
              \A k \in Range(users[u].keywords) :
                ( /\ Len(events[e].raw.message) <= users[u].characterLimit
                  /\ Includes(ToLowerCase(events[e].raw.message), ToLowerCase(k)) )
                => /\ Cardinality(EntriesOf(e, u, k)) = 1
                   /\ Notified(e, users[u], k)

\* C14 witness: message 1 matched as a new message, and the edit of message 1 was
\* processed after it and has entries of its own.
C14_Witness ==
  /\ events[1].raw.className = UpdateNewMessage /\ ProcessedCleanly(1)
  /\ events[2].raw.className = UpdateEditMessage /\ ProcessedCleanly(2)
  /\ SamePayload(1, 2)
  /\ EntryFields(1) # {} /\ EntryFields(2) # {}
  /\ \E m1, m2 \in ledger : m1._id[1] = 1 /\ m2._id[1] = 2

\* C15: an update whose chat or sender lookup gave nothing is still evaluated:
\* it reaches the scan, every matching pair is recorded and notified (unless the
\* read or a write failed), and its alerts show "Unknown Chat" / "Unknown User"
\* for the name that is missing.
C15_LookupFailureUsesPlaceholder ==
  \A e \in EventIds :
    ( /\ Delivered(e)
      /\ events[e].raw.className # "none"
      /\ ~LacksRequiredField(e) /\ events[e].raw.message # <<>> )
    => /\ events[e].via = "userbot"
       /\ \A s \in {x \in sends : x.event = e} :
            /\ events[e].ctx.chatTitle = Undefined => s.chat = "Unknown Chat"
            /\ events[e].ctx.senderName = Undefined => s.from = "Unknown User"
       /\ (ProcessedCleanly(e) /\ events[e].ctx.chatTitle = Undefined) =>
            \A u \in Users :
              ActiveAtRead(e, u) =>
                \A k \in Range(events[e].seen[u].keywords) :
                  PairMatches(e, u, k) =>
                    /\ Cardinality(EntriesOf(e, u, k)) = 1
                    /\ Notified(e, events[e].seen[u], k)

\* C15 witness: an event whose chat title and sender name are unresolved was
\* recorded and its alert sent with both placeholders.
C15_Witness ==
  \E e \in EventIds :
    /\ FinishedUserbot(e)
    /\ events[e].ctx.chatTitle = Undefined /\ events[e].ctx.senderName = Undefined
    /\ \E m \in ledger : m._id[1] = e
    /\ \E s \in sends :
         s.event = e /\ s.ok /\ s.chat = "Unknown Chat" /\ s.from = "Unknown User"

\* C16: in every step, a ledger entry that appears is the document of a handler
\* suspended at createMatch, for an active user and a keyword the message
\* contains within the user's limit; an entry present before and after the step
\* has the same fields; and entries disappear only in a deleteOldMatches call,
\* which removes entries older than its cutoff.
C16_LedgerAppendOnly ==
  [][ /\ \A m \in ledger' \ ledger :
           \E e \in EventIds :
             /\ events[e].pc = "write"
             /\ m._id[1] = e
             /\ ActiveAtRead(e, m.userId)
             /\ m.message = events[e].ctx.text
             /\ m.messageLength <= events[e].seen[m.userId].characterLimit
             /\ m.keyword \in Range(events[e].seen[m.userId].keywords)
             /\ Includes(ToLowerCase(m.message), ToLowerCase(m.keyword))
      /\ \A m \in ledger : \A n \in ledger' : m._id = n._id => m = n
      /\ ledger \ ledger' # {} =>
           /\ events' = events /\ sends' = sends
           /\ reply'.op = "deleteOldMatches" /\ reply'.ok
           /\ \A m \in ledger \ ledger' : m.timestamp < now - reply'.days
    ]_vars

\* C16 witness: the cleanup removed an entry of the first event and kept the
\* later entry of the second.
C16_Witness ==
  /\ reply.op = "deleteOldMatches" /\ reply.ok /\ reply.value >= 1
  /\ \A m \in ledger : m._id[1] # 1
  /\ \E m \in ledger : m._id[1] = 2
  /\ \E s \in sends : s.event = 1

\* C17: a deleteOldMatches(days) call that returns removes exactly the entries
\* with timestamp < now - days, keeps every other entry, and returns the number
\* of entries it removed.
C17_PruneStrictlyOlder ==
  [][ (reply'.op = "deleteOldMatches" /\ reply'.ok) =>
        /\ ledger' = {m \in ledger : m.timestamp >= now - reply'.days}
        /\ ledger \ ledger' = {m \in ledger : m.timestamp < now - reply'.days}
        /\ reply'.value = Cardinality(ledger \ ledger')
    ]_vars

\* C17 witness: a call with days = 1 removed the entry aged 2 days and kept the
\* entry aged exactly 1 day and the entry of today.
C17_Witness ==
  /\ reply.op = "deleteOldMatches" /\ reply.ok
  /\ reply.days = 1 /\ reply.value = 1
  /\ \E m \in ledger : m.timestamp = now - 1
  /\ \E m \in ledger : m.timestamp = now

\* The entries of coll a query call selects before sorting.
Selected(coll, call) ==
  IF call.op = "getMatchesByUser" THEN {m \in coll : m.userId = call.userId}
  ELSE IF call.op = "getMatchesByKeyword" THEN {m \in coll : m.keyword = call.keyword}
  ELSE coll

\* Result r holds the limit most recent entries of S, latest first.
MostRecentFirst(r, S, limit) ==
  /\ \A i, j \in 1..Len(r) : i < j => r[i].timestamp >= r[j].timestamp
  /\ \A i, j \in 1..Len(r) : i # j => r[i] # r[j]
  /\ Range(r) \subseteq S
  /\ Len(r) <= limit
  /\ Len(r) = limit \/ Range(r) = S
  /\ \A m \in S \ Range(r) : \A x \in Range(r) : x.timestamp >= m.timestamp

QueryOps == {"getMatchesByUser", "getMatchesByKeyword", "getRecentMatches"}

\* C18: a query returns the limit most recent of the entries it selects, in
\* descending timestamp order; and getMatchesByUser(m.userId, 1) called right
\* after createMatch returned m returns exactly m.
C18_QueriesMostRecentFirst ==
  [][ /\ reply'.op \in QueryOps =>
           MostRecentFirst(reply'.value, Selected(ledger', reply'), reply'.limit)
      /\ ( /\ reply.op = "createMatch" /\ reply.ok
            /\ reply'.op = "getMatchesByUser"
            /\ reply'.userId = reply.value.userId /\ reply'.limit = 1 )
         => reply'.value = <<reply.value>>
    ]_vars

\* The position of the first entry of scan q with keyword k.
FirstSeen(q, k) == CHOOSE i \in 1..Len(q) : q[i].keyword = k /\ \A j \in 1..(i - 1) : q[j].keyword # k

\* Number of entries of scan q with keyword k.
CountIn(q, k) == Cardinality({i \in 1..Len(q) : q[i].keyword = k})

\* top lists the keywords of scan q by descending count, equal counts in the
\* order of first appearance, cut after the tenth.
TopByCountThenFirstSeen(top, q) ==
  LET kws == {q[i].keyword : i \in 1..Len(q)}
  IN  /\ Len(top) <= 10
      /\ Len(top) = 10 \/ {top[i].keyword : i \in 1..Len(top)} = kws
      /\ \A i \in 1..Len(top) :
           /\ top[i].keyword \in kws
           /\ top[i].count = CountIn(q, top[i].keyword)
      /\ \A i, j \in 1..Len(top) :
           i < j =>
             /\ top[i].keyword # top[j].keyword
             /\ top[i].count >= top[j].count
             /\ top[i].count = top[j].count =>
                  FirstSeen(q, top[i].keyword) < FirstSeen(q, top[j].keyword)
      /\ \A k \in kws \ {top[i].keyword : i \in 1..Len(top)} :
           \A i \in 1..Len(top) : top[i].count >= CountIn(q, k)

\* C19: the topKeywords of a getMatchStats call that returns are at most 10, by
\* descending count over the window's entries, keywords of equal count in the
\* order of their first appearance among those entries.
C19_TopKeywordsOrder ==
  [][ (reply'.op = "getMatchStats" /\ reply'.ok) =>
        TopByCountThenFirstSeen(reply'.value.topKeywords, reply'.scanned) ]_vars

RECURSIVE TotalLength(_)
\* The sum of the message lengths of a set of entries.
TotalLength(S) ==
  IF S = {} THEN 0
  ELSE LET m == CHOOSE x \in S : TRUE
       IN  m.messageLength + TotalLength(S \ {m})

\* The entries of the trailing window of a getMatchStats call.
InWindow(coll, call) ==
  {m \in coll : /\ m.timestamp >= now - call.days
                /\ call.userId # NoUserId => m.userId = call.userId}

C21_NoCaseInsensitiveDuplicates ==
  \A u \in Users :
    users[u] # NoUser =>
      \A i, j \in 1..Len(users[u].keywords) :
        ToLowerCase(users[u].keywords[i]) = ToLowerCase(users[u].keywords[j])
          => i = j

\* C22: every step leaves every user's character limit an integer from 1 to
\* 1000, and a user whose record the step creates has the limit 100.
C22_CharacterLimitInRange ==
  [][\A u \in Users :
       users'[u] # NoUser =>
         /\ users'[u].characterLimit \in MinCharacterLimit..MaxCharacterLimit
         /\ users[u] = NoUser => users'[u].characterLimit = DefaultCharacterLimit
    ]_vars

\* C22 witness: setCharacterLimit was called with a value above 1000 for user 2,
\* whose record a login created, and the record holds 1000.
C22_Witness ==
  /\ reply.op = "setCharacterLimit" /\ reply.ok
  /\ reply.userId = 2 /\ reply.characterLimit > MaxCharacterLimit
  /\ users[2] # NoUser /\ users[2].characterLimit = MaxCharacterLimit

\* A string that writes a whole number in decimal, with or without a minus sign.
IsNumber(s) ==
  LET body == IF s # <<>> /\ Head(s) = "-" THEN Tail(s) ELSE s
  IN  body # <<>> /\ \A i \in 1..Len(body) : IsDigit(body[i])

\* The update the bot handled carries invalid input: a limit that is no number
\* or lies outside 1..1000, a destination id that is no number, a destination
\* list with an element that is no number, or, from a user who was asked for the
\* phone number, a text that is not in international format.
InvalidInput(a, asked) ==
  LET arg == Trim(AfterFirstWord(a.text))
      ids == SplitOn(arg, ",")
  IN  \/ /\ a.cmd = "/setlimit"
         /\ \/ ~IsNumber(arg)
            \/ DecimalValue(arg) \notin MinCharacterLimit..MaxCharacterLimit
      \/ a.cmd \in {"/addgroup", "/setnotification"} /\ ~IsNumber(arg)
      \/ a.cmd = "/setgroups" /\ \E i \in 1..Len(ids) : ~IsNumber(Trim(ids[i]))
      \/ a.cmd = "text" /\ asked /\ ~PhoneRegexTest(a.text)

\* C23: a step in which the bot handles an update with invalid input replies
\* with a rejection (or with the error message, when the storage failed) and
\* leaves the user directory as it was.
C23_InvalidInputRejected ==
  [][(now' = now /\ answer'.cmd # "none"
        /\ InvalidInput(answer', dialog[answer'.user].stage = "login"))
       => /\ answer'.kind \in {"usage", "invalid", "invalidPhone", "error"}
          /\ users' = users
    ]_vars

\* The update the bot handled is a well-formed /setlimit, /setnotification or
\* /setgroups command.
WellFormedSetting(a) ==
  LET arg == Trim(AfterFirstWord(a.text))
      ids == SplitOn(arg, ",")
  IN  \/ /\ a.cmd = "/setlimit" /\ IsNumber(arg)
         /\ DecimalValue(arg) \in MinCharacterLimit..MaxCharacterLimit
      \/ a.cmd = "/setnotification" /\ IsNumber(arg)
      \/ a.cmd = "/setgroups" /\ \A i \in 1..Len(ids) : IsNumber(Trim(ids[i]))

\* The record holds the value the command asked for.
HoldsRequested(user, a) ==
  LET arg == Trim(AfterFirstWord(a.text))
      ids == SplitOn(arg, ",")
  IN  IF a.cmd = "/setlimit" THEN user.characterLimit = DecimalValue(arg)
      ELSE IF a.cmd = "/setnotification"
        THEN user.notificationGroups = <<DecimalValue(arg)>>
      ELSE user.notificationGroups =
             [i \in 1..Len(ids) |-> DecimalValue(Trim(ids[i]))]

\* C30: a step in which the bot handles a well-formed /setlimit, /setnotification
\* or /setgroups command of a logged-in user, and the storage does not fail,
\* leaves the requested value in the user's record and confirms it.
C30_SettingStoredAndConfirmed ==
  [][(now' = now /\ answer'.cmd # "none" /\ WellFormedSetting(answer')
        /\ LoggedIn(users[answer'.user]) /\ answer'.kind # "error")
       => /\ HoldsRequested(users'[answer'.user], answer')
          /\ answer'.kind = "set"
    ]_vars

\* C24: there is at most one auth-session record per user id, and a
\* saveAuthSession call that returns leaves the record of its user with the
\* data of the call.
C24_OneSessionPerUser ==
  [][/\ \A u \in Users : Cardinality({r \in sessions' : r.userId = u}) <= 1
     /\ (reply' # reply /\ reply'.op = "saveAuthSession" /\ reply'.ok)
          => \E r \in sessions' :
               /\ r.userId = reply'.value.userId
               /\ r.phoneNumber = reply'.value.phoneNumber
               /\ r.sessionString = reply'.value.sessionString
               /\ r.isActive = reply'.value.isActive
    ]_vars

\* C24 witness: a call for user 1 has replaced the credential of a record that
\* was created at an earlier time.
C24_Witness ==
  /\ reply.op = "saveAuthSession" /\ reply.ok /\ reply.value.userId = 1
  /\ reply.value.sessionString # Session
  /\ \E r \in sessions :
       /\ r.userId = 1 /\ r.createdAt < r.updatedAt
       /\ r.sessionString = reply.value.sessionString

\* The step is a /logout of user u that the bot confirmed.
LoggedOutStep(u) ==
  /\ answer' # answer
  /\ answer'.cmd = "/logout" /\ answer'.kind = "loggedOut" /\ answer'.user = u

\* What /logout leaves alone: the ledger, the records of the other users, and
\* the keywords, the character limit and the destinations of the user, whose
\* record is not deleted.
LogoutFrame(u) ==
  /\ ledger' = ledger
  /\ \A v \in Users \ {u} : users'[v] = users[v]
  /\ users[u] = NoUser => users'[u] = NoUser
  /\ users[u] # NoUser =>
       /\ users'[u] # NoUser
       /\ users'[u].keywords = users[u].keywords
       /\ users'[u].characterLimit = users[u].characterLimit
       /\ users'[u].notificationGroups = users[u].notificationGroups

\* C29: a confirmed /logout keeps the user's record, clears its authenticated
\* flag and leaves its active flag, keywords, character limit, destinations and
\* the ledger as they were.
C29_LogoutKeepsRecord ==
  [][\A u \in Users :
       LoggedOutStep(u) =>
         /\ LogoutFrame(u)
         /\ users[u] # NoUser =>
              /\ ~users'[u].isAuthenticated
              /\ users'[u].isActive = users[u].isActive
    ]_vars

\* C29 as stated: a confirmed /logout keeps the user's record with its
\* keywords, character limit and destinations and the ledger, and clears the
\* active flag of the record.
C29_LogoutClearsActiveFlag ==
  [][\A u \in Users :
       LoggedOutStep(u) =>
         /\ LogoutFrame(u)
         /\ users[u] # NoUser => ~users'[u].isActive
    ]_vars

\* C29 witness: user 1, who has keywords and entries in the ledger, has logged
\* out: the record is there, not authenticated and active.
C29_Witness ==
  /\ answer.cmd = "/logout" /\ answer.kind = "loggedOut" /\ answer.user = 1
  /\ users[1] # NoUser /\ ~users[1].isAuthenticated /\ users[1].isActive
  /\ users[1].keywords # <<>>
  /\ \E m \in ledger : m.userId = 1

\* The auth step the login script has reached for a user whose dialog is d.
ExpectedStep(d) ==
  CASE d.stage = "login" -> "phone"
    [] d.stage = "phone" -> "code"
    [] d.stage = "code"  -> "password"
    [] OTHER             -> "none"

\* C27: while a user goes through /login, a valid phone number, the correct
\* verification code and the password of an account with two-factor
\* authentication, the auth step is the one the script has reached, and with
\* the last of these messages the user has a record that is authenticated and
\* has that phone number, and the bot confirms the success.
C27_LoginScriptAuthenticates ==
  [][\A u \in Users :
       dialog'[u] # dialog[u] =>
         /\ pendingAuth'[u].step = ExpectedStep(dialog'[u])
         /\ dialog'[u].stage = "done" =>
              /\ users'[u] # NoUser
              /\ users'[u].isAuthenticated
              /\ users'[u].phoneNumber = dialog'[u].phoneNumber
              /\ answer'.user = u /\ answer'.kind = "authenticated"
    ]_vars

\* C28: when the bot confirms that the authentication of a user succeeded, a
\* monitoring client of that user is running.
C28_ClientStartedOnSuccess ==
  [][\A u \in Users :
       ( /\ answer' # answer
         /\ answer'.user = u /\ answer'.kind = "authenticated" )
       => u \in clients'
    ]_vars

\* The process has exited and an uncaught exception or an unhandled rejection
\* was among the events its handlers saw.
ExitedAfterError == proc.pc = "exited" /\ proc.errorSeen

\* C25: a process that exits after an uncaught exception or an unhandled
\* rejection exits with a non-zero status, and the stop() that began the
\* shutdown has returned: the bot is stopped and the disconnect has settled.
C25_ExitAfterShutdownFinished ==
  ExitedAfterError =>
    /\ proc.exitCode # 0
    /\ proc.stopPc = "returned"
    /\ ~proc.botLaunched

\* The required names that have no value in configuration cfg, in the order of
\* the list of required names.
NamesWithoutValue(cfg) ==
  (IF cfg.botToken = <<>> THEN <<"botToken">> ELSE <<>>)
  \o (IF cfg.apiId.nan \/ cfg.apiId.value = 0 THEN <<"apiId">> ELSE <<>>)
  \o (IF cfg.apiHash = <<>> THEN <<"apiHash">> ELSE <<>>)

StartupOrder == <<"validateConfig", "connect", "launch">>

\* C26: the steps of startup are a prefix of validation, storage connection,
\* bot launch.  With a required value missing, validation ends the process with
\* status 1 and the list of exactly the missing names, and neither of the other
\* steps is taken; with none missing, validation passes with an empty list.
C26_ValidationFirst ==
  LET names == NamesWithoutValue(config(proc.env))
  IN  /\ Len(proc.steps) <= Len(StartupOrder)
      /\ proc.steps = SubSeq(StartupOrder, 1, Len(proc.steps))
      /\ proc.storageConnected => Len(proc.steps) >= 2
      /\ proc.botLaunched => Len(proc.steps) = 3
      /\ (names # <<>> /\ proc.pc # "start") =>
           /\ proc.pc = "exited" /\ proc.exitCode = 1
           /\ proc.missing = names
           /\ proc.steps = <<"validateConfig">>
           /\ ~proc.storageConnected /\ ~proc.botLaunched
      /\ names = <<>> =>
           /\ proc.missing = <<>>
           /\ Len(proc.steps) = 1 => proc.pc = "validated"
           /\ proc.pc = "exited" => Len(proc.steps) >= 2

\* C26 witness: startup was aborted after validation with two names listed.
C26_Witness ==
  /\ proc.pc = "exited" /\ proc.steps = <<"validateConfig">>
  /\ proc.missing = <<"botToken", "apiHash">>

\* The fields of a user record other than the keywords and the update stamp.
SameButKeywords(before, after) ==
  [after EXCEPT !.keywords = before.keywords, !.updatedAt = before.updatedAt]
    = before

\* C35: a step in which addKeyword or removeKeyword ran for user u and keyword
\* k reports success exactly when k was not (was) in the keywords of u, leaves
\* the keywords with k appended (with k removed) on success and as they were
\* otherwise, and changes no other user and no other field of u.
C35_KeywordSetAlgebra ==
  [][\A u \in Users :
       ( /\ answer' # answer \/ users' # users
         /\ answer'.cmd \in {"/addkeyword", "/removekeyword"}
         /\ answer'.user = u
         /\ answer'.kind \in {"added", "alreadyListed", "removed", "notFound"} )
       => LET k    == Trim(AfterFirstWord(answer'.text))
              old  == users[u].keywords
              had  == k \in Range(old)
          IN  /\ \A v \in Users \ {u} : users'[v] = users[v]
              /\ SameButKeywords(users[u], users'[u])
              /\ answer'.cmd = "/addkeyword" =>
                   /\ answer'.kind = "added" <=> ~had
                   /\ users'[u].keywords = IF had THEN old ELSE Append(old, k)
              /\ answer'.cmd = "/removekeyword" =>
                   /\ answer'.kind = "removed" <=> had
                   /\ users'[u].keywords = SelectSeq(old, LAMBDA x : x # k)
    ]_vars

\* C38: no user's list of notification destinations holds an identifier twice.
C38_NoDuplicateDestinations ==
  \A u \in Users :
    users[u] # NoUser =>
      \A i, j \in 1..Len(users[u].notificationGroups) :
        i # j => users[u].notificationGroups[i] # users[u].notificationGroups[j]

SettingsCommands ==
  {"/addkeyword", "/removekeyword", "/setlimit", "/setnotification",
   "/addgroup", "/removegroup", "/setgroups"}

C33_LedgerBeforeNotification ==
  [][/\ \A s \in sends' \ sends :
          \E m \in ledger :
            /\ m._id[1] = s.event
            /\ m.userId = s.userId
            /\ m.keyword = Trim(s.keyword)
     /\ \A e \in EventIds : \A p \in events'[e].writeFailed :
          ~\E s \in sends' : s.event = e /\ s.userId = p[1] /\ s.keyword = p[2]
    ]_vars

\* C33 witness: an alert was sent for a match, and the ledger write of another
\* match failed.
C33_Witness ==
  /\ sends # {}
  /\ \E e \in EventIds : events[e].writeFailed # {}

\* The (user, keyword) matches the ledger holds of event e.
MatchSet(e) == {<<m.userId, m.keyword>> : m \in {x \in ledger : x._id[1] = e}}

\* Event e is an evaluation by the userbot that ran to its end with no read or
\* write failure.
Evaluated(e) ==
  /\ FinishedUserbot(e) /\ ReadDone(e)
  /\ events[e].writeFailed = {}

\* C32: no step of an evaluation changes the user directory, and two
\* evaluations of the same message text against the same directory recorded the
\* same set of (user, keyword) matches.
C32_EvaluationRepeatable ==
  [][/\ users' = users
     /\ \A e1, e2 \in EventIds :
          ( /\ Evaluated(e1)' /\ Evaluated(e2)'
            /\ events'[e1].ctx.text = events'[e2].ctx.text
            /\ events'[e1].seen = events'[e2].seen )
          => MatchSet(e1)' = MatchSet(e2)'
    ]_vars

\* C32 witness: two evaluations of one text have each recorded a match.
C32_Witness ==
  \E e1, e2 \in EventIds :
    /\ e1 # e2
    /\ Evaluated(e1) /\ Evaluated(e2)
    /\ events[e1].ctx.text = events[e2].ctx.text
    /\ MatchSet(e1) # {} /\ MatchSet(e2) # {}

\* C34: a run of the cleanup interval that succeeds removes exactly the entries
\* written more than RetentionDays before it; a run that fails removes nothing;
\* no run raises an exception or touches an event handler, the sends or the
\* directory; and in every state the next run and the next step of every
\* suspended event handler can be taken.
C34_CleanupRun ==
  [][/\ (reply' # reply /\ reply'.op = "cleanup") =>
          /\ events' = events /\ sends' = sends
          /\ raised' = raised /\ users' = users
          /\ reply'.ok =>
               /\ ledger' = {m \in ledger : m.timestamp >= now - RetentionDays}
               /\ reply'.value = Cardinality(ledger \ ledger')
          /\ ~reply'.ok => ledger' = ledger
     /\ ENABLED CleanupRun
     /\ \A e \in EventIds :
          /\ events[e].pc = "read" => ENABLED ReadDirectory(e)
          /\ events[e].pc = "write" => ENABLED WriteLedger(e)
          /\ events[e].pc = "send" => ENABLED SendNotification(e)
    ]_vars

\* C34 witness: after a day the run removed the entries aged 30 and 31 days
\* then, kept the entry aged 29 days then, while an event handler is suspended
\* at its ledger write.
C34_Witness ==
  /\ reply.op = "cleanup" /\ reply.ok /\ reply.value = 2
  /\ now = 1
  /\ \E m \in ledger : m.timestamp = now - RetentionDays
  /\ \E e \in EventIds : events[e].pc = "write"


\* The ledger entries a step adds.
NewEntries == {m \in ledger' : ~\E x \in ledger : x._id = m._id}

\* The record of user u in the directory as event e read it.
SeenBy(e, u) == events[e].seen[u]

\* C31: a keyword, limit or destination command that completed has left the
\* requested value in the directory; the read step of every evaluation takes the
\* directory as it is at that step; and every ledger entry and alert of an
\* evaluation is for a keyword of that reading, within the limit of that
\* reading, and sent to a destination of that reading.
C31_DirectoryChangesApply ==
  [][/\ (answer'.cmd # "none" /\ (answer' # answer \/ users' # users)) =>
          LET a   == answer'
              arg == Trim(AfterFirstWord(a.text))
          IN  /\ (a.cmd = "/addkeyword" /\ a.kind \in {"added", "alreadyListed"})
                   => arg \in Range(users'[a.user].keywords)
              /\ (a.cmd = "/removekeyword" /\ a.kind \in {"removed", "notFound"})
                   => arg \notin Range(users'[a.user].keywords)
              /\ (a.cmd \in {"/setlimit", "/setgroups"} /\ a.kind \in {"set", "failed"})
                   => HoldsRequested(users'[a.user], a)
     /\ \A e \in EventIds :
          (events[e].pc = "read" /\ events'[e].pc # "read" /\ ~events'[e].readFailed)
            => events'[e].seen = users
     /\ \A m \in NewEntries :
          LET user == SeenBy(m._id[1], m.userId)
          IN  /\ m.keyword \in Range(user.keywords)
              /\ Includes(ToLowerCase(m.message), ToLowerCase(m.keyword))
              /\ Len(m.message) <= user.characterLimit
     /\ \A s \in sends' \ sends :
          s.dest \in Range(Destinations(SeenBy(s.event, s.userId)))
    ]_vars

\* C31 witness: after the first keyword was removed, a second one added and two
\* destinations set, an evaluation of a text that contains both keywords recorded
\* the second keyword only and alerted the second destination.
C31_Witness ==
  \E e \in EventIds :
    /\ Evaluated(e)
    /\ events[e].ctx.text = T2
    /\ SeenBy(e, Sender).keywords = <<K2>>
    /\ SeenBy(e, Sender).notificationGroups = <<7, 8>>
    /\ MatchSet(e) = {<<Sender, K2>>}
    /\ \E s \in sends : s.event = e /\ s.dest = 8 /\ s.keyword = K2

\* C40: every entry written to the ledger carries the text of its message and
\* the length of that text, the length is at most the character limit its owner
\* had in the directory the evaluation read, and at most MaxCharacterLimit.
C40_EntryLengthWithinReadLimit ==
  [][\A m \in NewEntries :
       /\ m.message = events[m._id[1]].ctx.text
       /\ m.messageLength = Len(m.message)
       /\ m.messageLength <= SeenBy(m._id[1], m.userId).characterLimit
       /\ m.messageLength <= MaxCharacterLimit
    ]_vars

\* C40 witness: an entry whose length is exactly the limit its owner had set
\* before the evaluation read the directory.
C40_Witness ==
  \E m \in ledger :
    /\ SeenBy(m._id[1], m.userId).characterLimit = 1
    /\ m.messageLength = 1

\* C40 as stated: at the step that writes an entry its length is at most the
\* limit the owner's record holds at that step.
C40_EntryLengthWithinOwnersLimit ==
  [][\A m \in NewEntries :
       /\ m.message = events[m._id[1]].ctx.text
       /\ m.messageLength = Len(m.message)
       /\ m.messageLength <= users[m.userId].characterLimit
       /\ m.messageLength <= MaxCharacterLimit
    ]_vars


\* The connected clients with handlers that monitor the account of user u.
ClientsOf(u) == {c \in userbot.connected : c.user = u}

\* C36: whatever calls of start, startUserbotForUser and stop were made, each
\* user has at most one connected client with handlers, and an update is run
\* through the handler at most once.
C36_AtMostOneClientPerUser ==
  /\ \A u \in Users : Cardinality(ClientsOf(u)) <= 1
  /\ userbot.handled.runs <= 1

\* C37: when the shutdown sequence has completed and no disconnect() has
\* thrown, no client the service started is still connected and the map of
\* active clients is empty.
C37_ShutdownDisconnectsAll ==
  (proc.stopPc = "returned" /\ ~userbot.disconnectFailed)
    => (userbot.connected = {} /\ ActiveKeys(userbot) = {})

====
